---- MODULE Spec2Model ----
(***************************************************************************)
(* The directed-graph workflow engine of crates/ai/src/graph.rs: the       *)
(* builder (Graph), its validation and compilation, and the sequential     *)
(* interpreter loop of CompiledGraph (execute, execute_with_start,         *)
(* get_next_node).                                                         *)
(*                                                                         *)
(* The state type T of the engine is caller-defined; here T is an integer. *)
(* Node transforms and predicates are caller-supplied closures; they are   *)
(* drawn from the small sets NodeFns and Thresholds below.                 *)
(***************************************************************************)
EXTENDS Integers, Sequences, FiniteSets, TLC

VARIABLES
    graph,           \* the Graph under construction (it stays as compile saw it)
    phase,           \* "building", or "compiled" / "failed" once compile ran
    compiled,        \* Some(CompiledGraph) after a successful compile
    compile_result,  \* what compile returned
    calls,           \* the execute / execute_with_start calls: per call its
                     \* position (pc), current_node, current_data, result and
                     \* the trace of what it invoked
    rpc,             \* a chat_completions / stream_chat_completions call of
                     \* the OpenAI client: the request, its position, the HTTP
                     \* requests sent, its result
    sse,             \* the result_stream of stream_chat_completions: the
                     \* response body, what was read of it, buffer, items
    uri              \* a call of utils::uri: the function, its argument and
                     \* the String it returned

vars == <<graph, phase, compiled, compile_result, calls, rpc, sse, uri>>

----------------------------------------------------------------------------
(* Bounds of the model *)

\* builder: registered names + edges + conditional edges of a Graph
MaxOps == 3
\* executor: edges + conditional edges of the graphs that are run
MaxTrans == 2
\* executor: node invocations of one run (the engine itself has no cap)
MaxSteps == 5
\* OpenAI client: lines of a streamed response body
MaxLines == 3
\* utils::uri: characters of a url
MaxUrl == 4

----------------------------------------------------------------------------
(* Sentinels and error values *)

START == "__start__"

END == "__end__"

NodeNotFound(name) == [kind |-> "NodeNotFound", arg |-> name]

ExecutionError(detail) == [kind |-> "ExecutionError", arg |-> detail]

NoEntryPoint == [kind |-> "NoEntryPoint", arg |-> ""]

\* values of crate::Error that the OpenAI client returns
StreamingNotSupported(msg) == [kind |-> "StreamingNotSupported", arg |-> msg]

Cancelled == [kind |-> "Cancelled", arg |-> ""]

UnknownError(msg) == [kind |-> "UnknownError", arg |-> msg]

ReqwestError == [kind |-> "ReqwestError", arg |-> ""]

InvalidHeaderValue == [kind |-> "InvalidHeaderValue", arg |-> "authorization"]

Ok(v) == [tag |-> "Ok", val |-> v]

Err(e) == [tag |-> "Err", err |-> e]

Pending == [tag |-> "Pending"]

\* Option<String>: None is the empty sequence, Some(s) is <<s>>
None == <<>>

Some(s) == <<s>>

\* no client call made yet: the request has no stream flag and no
\* cancellation token
IdleRpc ==
    [pc |-> "idle", api |-> "", stream |-> None, token |-> "none", sent |-> 0,
     sent_stream |-> None, result |-> Pending]

\* no function of utils::uri has been called
NoUri == [fn |-> "", url |-> <<>>, out |-> <<>>]

\* no result_stream exists
NoStream ==
    [st |-> "none", body |-> <<>>, pos |-> 0, buffer |-> <<>>, items |-> <<>>]

----------------------------------------------------------------------------
(* Caller-supplied closures *)

\* node transforms: "inc" adds 1, "dbl" doubles, "noop" returns its input,
\* "fail" returns Err
NodeFns == {"inc", "dbl", "noop", "fail"}

ApplyNode(f, x) ==
    CASE f = "inc"  -> Ok(x + 1)
      [] f = "dbl"  -> Ok(2 * x)
      [] f = "noop" -> Ok(x)
      [] f = "fail" -> Err("boom")

\* predicates: the threshold predicate k answers "low" below k and "high"
\* from k on
EvalCond(k, x) == IF x < k THEN "low" ELSE "high"

Labels == {"low", "high"}

----------------------------------------------------------------------------
(* Graph: the builder *)

Edge(from, to) == [from |-> from, to |-> to]

ConditionalEdge(from, condition, mapping) ==
    [from |-> from, condition |-> condition, mapping |-> mapping]

\* Graph::new
NewGraph ==
    [nodes |-> <<>>, edges |-> <<>>, conditional_edges |-> <<>>,
     entry_point |-> None]

\* (mutant) insertion that keeps the closure already registered under name
NodesInsertKeepFirst(nodes, name, f) ==
    [n \in (DOMAIN nodes) \cup {name} |-> IF n \in DOMAIN nodes THEN nodes[n] ELSE f]

\* HashMap::insert: the entry of name is added or overwritten
NodesInsert(nodes, name, f) ==
    [n \in (DOMAIN nodes) \cup {name} |-> IF n = name THEN f ELSE nodes[n]]

GraphSize(g) ==
    Cardinality(DOMAIN g.nodes) + Len(g.edges) + Len(g.conditional_edges)

\* the Graph that add_node(name, f) returns
WithNode(g, name, f) == [g EXCEPT !.nodes = NodesInsert(g.nodes, name, f)]

\* (mutant) add_edge checks its endpoints against the registry and drops an
\* edge that names a node not registered so far
WithEdgeChecked(g, from, to) ==
    IF (from = START \/ from \in DOMAIN g.nodes) /\ (to = END \/ to \in DOMAIN g.nodes)
    THEN [g EXCEPT !.edges = Append(g.edges, Edge(from, to))]
    ELSE g

\* the Graph that add_edge(from, to) returns
WithEdge(g, from, to) == [g EXCEPT !.edges = Append(g.edges, Edge(from, to))]

\* the Graph that add_conditional_edges(from, condition, mapping) returns
WithConditionalEdges(g, from, condition, mapping) ==
    [g EXCEPT !.conditional_edges =
        Append(g.conditional_edges, ConditionalEdge(from, condition, mapping))]

\* Graph::add_node
AddNode(name, f) ==
    /\ phase = "building"
    /\ graph' = WithNode(graph, name, f)
    /\ GraphSize(graph') <= MaxOps
    /\ UNCHANGED <<phase, compiled, compile_result, calls, rpc, sse, uri>>

\* Graph::add_edge
AddEdge(from, to) ==
    /\ phase = "building"
    /\ graph' = WithEdge(graph, from, to)
    /\ GraphSize(graph') <= MaxOps
    /\ UNCHANGED <<phase, compiled, compile_result, calls, rpc, sse, uri>>

\* Graph::add_conditional_edges
AddConditionalEdges(from, condition, mapping) ==
    /\ phase = "building"
    /\ graph' = WithConditionalEdges(graph, from, condition, mapping)
    /\ GraphSize(graph') <= MaxOps
    /\ UNCHANGED <<phase, compiled, compile_result, calls, rpc, sse, uri>>

----------------------------------------------------------------------------
(* Graph::validate *)

ContainsKey(nodes, name) == name \in DOMAIN nodes

\* (mutant) validate without the check of an edge's `to`
EdgeViolationsFromOnly(nodes, edge) ==
    IF edge.from # START /\ ~ContainsKey(nodes, edge.from)
    THEN <<edge.from>> ELSE <<>>

\* the names one unconditional edge makes validate report, in check order
EdgeViolations(nodes, edge) ==
    (IF edge.from # START /\ ~ContainsKey(nodes, edge.from)
        THEN <<edge.from>> ELSE <<>>)
    \o (IF edge.to # END /\ ~ContainsKey(nodes, edge.to)
        THEN <<edge.to>> ELSE <<>>)

\* (mutant) validate does not look at the mapping targets
BadTargetsNone(nodes, ce) == {}

\* (mutant) validate without the END exemption of mapping targets
BadTargetsNoEnd(nodes, ce) ==
    {ce.mapping[l] : l \in {l \in DOMAIN ce.mapping :
        ~ContainsKey(nodes, ce.mapping[l])}}

\* the mapping targets of a conditional edge that validate rejects
BadTargets(nodes, ce) ==
    {ce.mapping[l] : l \in {l \in DOMAIN ce.mapping :
        ce.mapping[l] # END /\ ~ContainsKey(nodes, ce.mapping[l])}}

\* (mutant) validate does not look at the `from` of a conditional edge
CondViolationsTargetsOnly(nodes, ce) == BadTargets(nodes, ce)

\* the names validate may report for one conditional edge: its `from`, or,
\* when `from` is registered, any rejected target (mapping.values() runs in
\* the HashMap's unspecified order)
CondViolations(nodes, ce) ==
    IF ~ContainsKey(nodes, ce.from) THEN {ce.from} ELSE BadTargets(nodes, ce)

FirstBadEdge(g) ==
    LET bad == {i \in 1..Len(g.edges) : EdgeViolations(g.nodes, g.edges[i]) # <<>>}
    IN  IF bad = {} THEN 0 ELSE CHOOSE i \in bad : \A j \in bad : i <= j

FirstBadCond(g) ==
    LET bad == {i \in 1..Len(g.conditional_edges) :
                    CondViolations(g.nodes, g.conditional_edges[i]) # {}}
    IN  IF bad = {} THEN 0 ELSE CHOOSE i \in bad : \A j \in bad : i <= j

\* (mutant) validate scans the conditional edges before the edges
ValidateCondsFirst(g) ==
    IF FirstBadCond(g) # 0
    THEN {Err(NodeNotFound(x)) :
            x \in CondViolations(g.nodes, g.conditional_edges[FirstBadCond(g)])}
    ELSE IF FirstBadEdge(g) # 0
    THEN {Err(NodeNotFound(EdgeViolations(g.nodes, g.edges[FirstBadEdge(g)])[1]))}
    ELSE {Ok("unit")}

\* the results validate can return for g
Validate(g) ==
    IF FirstBadEdge(g) # 0
    THEN {Err(NodeNotFound(EdgeViolations(g.nodes, g.edges[FirstBadEdge(g)])[1]))}
    ELSE IF FirstBadCond(g) # 0
    THEN {Err(NodeNotFound(x)) :
            x \in CondViolations(g.nodes, g.conditional_edges[FirstBadCond(g)])}
    ELSE {Ok("unit")}

\* (mutant) compile hands the edges over in reverse order of declaration
FreezeReversed(g) ==
    [nodes |-> g.nodes,
     edges |-> [i \in 1..Len(g.edges) |-> g.edges[Len(g.edges) + 1 - i]],
     conditional_edges |-> g.conditional_edges, entry_point |-> g.entry_point]

\* the CompiledGraph that compile builds from the Graph's four fields
Freeze(g) ==
    [nodes |-> g.nodes, edges |-> g.edges,
     conditional_edges |-> g.conditional_edges, entry_point |-> g.entry_point]

\* the results Graph::compile can return for g
CompileOutcomes(g) ==
    {IF v.tag = "Ok" THEN Ok(Freeze(g)) ELSE v : v \in Validate(g)}

\* Graph::compile: consumes the builder
Compile ==
    /\ phase = "building"
    /\ \E r \in CompileOutcomes(graph) :
        /\ compile_result' = r
        /\ compiled' = IF r.tag = "Ok" THEN Some(r.val) ELSE None
        /\ phase' = IF r.tag = "Ok" THEN "compiled" ELSE "failed"
    /\ UNCHANGED <<graph, calls, rpc, sse, uri>>

----------------------------------------------------------------------------
(* Specification of the builder *)

BuildNames == {"a", "b", START, END}

BuildFns == {"inc", "fail"}

BuildMappings ==
    {[low |-> "a", high |-> END], [low |-> "b", high |-> START]}

IdleCall ==
    [pc |-> "idle", api |-> "", start_arg |-> "", input |-> 0, current_node |-> "",
     current_data |-> 0, cond_idx |-> 0, result |-> Pending, trace |-> <<>>,
     inflight |-> {}]

InitBuild ==
    /\ graph = NewGraph
    /\ phase = "building"
    /\ compiled = None
    /\ compile_result = Pending
    /\ calls = [c \in {1} |-> IdleCall]
    /\ rpc = IdleRpc
    /\ sse = NoStream
    /\ uri = NoUri

NextBuild ==
    \/ \E name \in BuildNames, f \in BuildFns : AddNode(name, f)
    \/ \E from \in BuildNames, to \in BuildNames : AddEdge(from, to)
    \/ \E from \in BuildNames, mapping \in BuildMappings :
            AddConditionalEdges(from, 2, mapping)
    \/ Compile

SpecBuild == InitBuild /\ [][NextBuild]_vars

----------------------------------------------------------------------------
(* Properties of validation and compilation *)

IsSentinel(n) == n \in {START, END}

Registered(g, n) == n \in DOMAIN g.nodes

EdgeIdx(g) == 1..Len(g.edges)

CondIdx(g) == 1..Len(g.conditional_edges)

MappingTargets(ce) == {ce.mapping[l] : l \in DOMAIN ce.mapping}

\* every name an edge or a conditional edge of g refers to
Referenced(g) ==
    {g.edges[i].from : i \in EdgeIdx(g)} \cup {g.edges[i].to : i \in EdgeIdx(g)}
    \cup {g.conditional_edges[i].from : i \in CondIdx(g)}
    \cup UNION {MappingTargets(g.conditional_edges[i]) : i \in CondIdx(g)}

\* the referenced names that are neither a sentinel nor registered
Dangling(g) == {n \in Referenced(g) : ~IsSentinel(n) /\ ~Registered(g, n)}

\* the unregistered names standing where the validator accepts only a
\* registered name: an edge's `from` other than START, an edge's `to` or a
\* mapping target other than END, a conditional edge's `from`
Rejected(g) ==
    {g.edges[i].from : i \in {i \in EdgeIdx(g) :
        g.edges[i].from # START /\ ~Registered(g, g.edges[i].from)}}
    \cup {g.edges[i].to : i \in {i \in EdgeIdx(g) :
        g.edges[i].to # END /\ ~Registered(g, g.edges[i].to)}}
    \cup {g.conditional_edges[i].from : i \in {i \in CondIdx(g) :
        ~Registered(g, g.conditional_edges[i].from)}}
    \cup UNION {{t \in MappingTargets(g.conditional_edges[i]) :
        t # END /\ ~Registered(g, t)} : i \in CondIdx(g)}

CompileCalled == phase # "building"

CompileFailedWith(names) ==
    /\ phase = "failed"
    /\ compiled = None
    /\ compile_result.tag = "Err"
    /\ compile_result.err.kind = "NodeNotFound"
    /\ compile_result.err.arg \in names

\* C1 as stated: whenever the graph has a reference that is neither a
\* sentinel nor registered, compile fails with NodeNotFound(x), x one of
\* those references, and produces no CompiledGraph
C1_ReportsDanglingName ==
    (CompileCalled /\ Dangling(graph) # {}) => CompileFailedWith(Dangling(graph))

\* C1 amended: whenever the graph has a reference that is neither a sentinel
\* nor registered, compile fails with NodeNotFound(x) and produces no
\* CompiledGraph; x is a referenced name missing from the registry: one of
\* those references, or a sentinel standing where validate does not accept it
C1_FailsOnDangling ==
    (CompileCalled /\ Dangling(graph) # {}) =>
        /\ CompileFailedWith(Rejected(graph))
        /\ ~Registered(graph, compile_result.err.arg)

\* C1 witness: a failed compile that reports a dangling mapping target
C1_Witness ==
    /\ phase = "failed"
    /\ Len(graph.edges) > 0
    /\ Len(graph.conditional_edges) > 0
    /\ compile_result.err.arg \in Dangling(graph)
    /\ compile_result.err.arg \in MappingTargets(graph.conditional_edges[1])

\* every endpoint and target is a sentinel or registered, every conditional
\* `from` is registered
SentinelOrRegistered(g) ==
    /\ \A i \in EdgeIdx(g) :
        /\ IsSentinel(g.edges[i].from) \/ Registered(g, g.edges[i].from)
        /\ IsSentinel(g.edges[i].to) \/ Registered(g, g.edges[i].to)
    /\ \A i \in CondIdx(g) :
        /\ Registered(g, g.conditional_edges[i].from)
        /\ \A t \in MappingTargets(g.conditional_edges[i]) :
            IsSentinel(t) \/ Registered(g, t)

\* C2 as stated: compile succeeds when every edge endpoint and mapping
\* target is a sentinel (START or END) or registered and every conditional
\* `from` is registered
C2_SentinelAnywhere ==
    (CompileCalled /\ SentinelOrRegistered(graph)) => phase = "compiled"

\* C2 amended: compile succeeds when every edge's `from` is START or
\* registered, every edge's `to` and every mapping target is END or
\* registered, and every conditional `from` is registered
C2_CompileSucceeds ==
    (CompileCalled /\ Rejected(graph) = {}) =>
        /\ phase = "compiled"
        /\ compile_result.tag = "Ok"
        /\ compiled # None

\* C2 witness: a compiled graph with an edge out of START, a conditional
\* edge to END and a registered node
C2_Witness ==
    /\ phase = "compiled"
    /\ \E i \in EdgeIdx(graph) : graph.edges[i].from = START
    /\ \E i \in CondIdx(graph) : END \in MappingTargets(graph.conditional_edges[i])

----------------------------------------------------------------------------
(* CompiledGraph: the executor *)

MinOf(S) == CHOOSE i \in S : \A j \in S : i <= j

\* (mutant) the first edge is taken for the entry, whatever its `from`
StartNodeAnyEdge(cg) ==
    IF Len(cg.edges) > 0 THEN Some(cg.edges[1].to) ELSE cg.entry_point

\* (mutant) a recorded entry point is preferred to the edges out of START
StartNodePrefersEntry(cg) ==
    LET s == {i \in 1..Len(cg.edges) : cg.edges[i].from = START}
    IN  IF cg.entry_point # None THEN cg.entry_point
        ELSE IF s # {} THEN Some(cg.edges[MinOf(s)].to) ELSE None

\* execute, lines 185-190: the target of the first edge out of START, or
\* else the recorded entry point
StartNode(cg) ==
    LET s == {i \in 1..Len(cg.edges) : cg.edges[i].from = START}
    IN  IF s # {} THEN Some(cg.edges[MinOf(s)].to) ELSE cg.entry_point

NodeEvent(node, data) == [ev |-> "node", node |-> node, idx |-> 0, data |-> data]

CondEvent(node, idx, data) == [ev |-> "cond", node |-> node, idx |-> idx, data |-> data]

\* number of transforms invoked so far in a run
Invocations(trace) == Cardinality({i \in 1..Len(trace) : trace[i].ev = "node"})

\* (mutant) the loop goes on without awaiting the future it called, which
\* stays in flight
AwaitedDetached(call) == call

\* the future awaited by a suspended call is the one it called last: when it
\* returns it is no longer in flight
Awaited(call) == [call EXCEPT !.inflight = @ \ {Len(call.trace)}]

\* execute, top of the loop: look the node up and call its transform, which
\* is then awaited; an unregistered node ends the run
EnterNode(cg, call, node) ==
    IF ContainsKey(cg.nodes, node)
    THEN [call EXCEPT !.pc = "await_node", !.current_node = node,
                      !.trace = Append(@, NodeEvent(node, call.current_data)),
                      !.inflight = @ \cup {Len(call.trace) + 1}]
    ELSE [call EXCEPT !.pc = "done", !.current_node = node,
                      !.result = Err(NodeNotFound(node))]

\* (mutant) execute_with_start does not look the node up first: a name that
\* is not registered ends the run with the data unchanged
EnterNodeWSLenient(cg, call, node) ==
    IF ContainsKey(cg.nodes, node)
    THEN [call EXCEPT !.pc = "await_node", !.current_node = node,
                      !.trace = Append(@, NodeEvent(node, call.current_data)),
                      !.inflight = @ \cup {Len(call.trace) + 1}]
    ELSE [call EXCEPT !.pc = "done", !.current_node = node,
                      !.result = Ok(call.current_data)]

\* execute_with_start, top of the loop
EnterNodeWS(cg, call, node) ==
    IF ContainsKey(cg.nodes, node)
    THEN [call EXCEPT !.pc = "await_node", !.current_node = node,
                      !.trace = Append(@, NodeEvent(node, call.current_data)),
                      !.inflight = @ \cup {Len(call.trace) + 1}]
    ELSE [call EXCEPT !.pc = "done", !.current_node = node,
                      !.result = Err(NodeNotFound(node))]

\* (mutant) END is not recognised: it becomes the current node like any
\* other name
AdvanceIntoEnd(cg, call, next) ==
    IF next = None
    THEN [call EXCEPT !.pc = "done", !.result = Ok(call.current_data)]
    ELSE EnterNode(cg, call, next[1])

\* (mutant) a node without a transition is run again instead of ending the
\* run
AdvanceAgain(cg, call, next) ==
    IF next = None
    THEN EnterNode(cg, call, call.current_node)
    ELSE IF next[1] = END
    THEN [call EXCEPT !.pc = "done", !.result = Ok(call.current_data)]
    ELSE EnterNode(cg, call, next[1])

\* (mutant) the loop gives up after its third transform, as an engine with a
\* recursion limit would, and returns the current data
AdvanceCapped(cg, call, next) ==
    IF next = None \/ Invocations(call.trace) >= 3
    THEN [call EXCEPT !.pc = "done", !.result = Ok(call.current_data)]
    ELSE IF next[1] = END
    THEN [call EXCEPT !.pc = "done", !.result = Ok(call.current_data)]
    ELSE EnterNode(cg, call, next[1])

\* execute, bottom of the loop: END or no next node ends the run with the
\* current data, any other name becomes the current node
Advance(cg, call, next) ==
    IF next = None
    THEN [call EXCEPT !.pc = "done", !.result = Ok(call.current_data)]
    ELSE IF next[1] = END
    THEN [call EXCEPT !.pc = "done", !.result = Ok(call.current_data)]
    ELSE EnterNode(cg, call, next[1])

\* (mutant) execute_with_start returns the data it was given, not the data
\* the last transform produced
AdvanceWSInput(cg, call, next) ==
    IF next = None
    THEN [call EXCEPT !.pc = "done", !.result = Ok(call.input)]
    ELSE IF next[1] = END
    THEN [call EXCEPT !.pc = "done", !.result = Ok(call.input)]
    ELSE EnterNodeWS(cg, call, next[1])

\* execute_with_start, bottom of the loop
AdvanceWS(cg, call, next) ==
    IF next = None
    THEN [call EXCEPT !.pc = "done", !.result = Ok(call.current_data)]
    ELSE IF next[1] = END
    THEN [call EXCEPT !.pc = "done", !.result = Ok(call.current_data)]
    ELSE EnterNodeWS(cg, call, next[1])

\* get_next_node returns `next` to the loop that called it
NextNodeIs(cg, call, next) ==
    IF call.api = "execute_with_start"
    THEN AdvanceWS(cg, call, next)
    ELSE Advance(cg, call, next)

\* (mutant) the last unconditional edge out of current is taken
FirstEdgeLatest(cg, current) ==
    LET s == {i \in 1..Len(cg.edges) : cg.edges[i].from = current}
    IN  IF s # {} THEN Some(cg.edges[CHOOSE i \in s : \A k \in s : k <= i].to)
        ELSE None

\* get_next_node, second loop: the first unconditional edge out of current
FirstEdge(cg, current) ==
    LET s == {i \in 1..Len(cg.edges) : cg.edges[i].from = current}
    IN  IF s # {} THEN Some(cg.edges[MinOf(s)].to) ELSE None

\* (mutant) the conditional edges out of current are consulted last
\* declared first
NextCondLatest(cg, current, i) ==
    LET s == {j \in i..Len(cg.conditional_edges) :
                cg.conditional_edges[j].from = current}
    IN  IF s # {} THEN CHOOSE j \in s : \A k \in s : k <= j ELSE 0

\* (mutant) every conditional edge is consulted, whatever its `from`
NextCondAnyFrom(cg, current, i) ==
    IF i <= Len(cg.conditional_edges) THEN i ELSE 0

\* get_next_node, first loop: the next conditional edge out of current at
\* index i or later (0: none)
NextCond(cg, current, i) ==
    LET s == {j \in i..Len(cg.conditional_edges) :
                cg.conditional_edges[j].from = current}
    IN  IF s # {} THEN MinOf(s) ELSE 0

\* (mutant) the unconditional edges are scanned before the conditional ones
ResolveEdgesFirst(cg, call, i) ==
    LET j == NextCond(cg, call.current_node, i)
    IN  IF FirstEdge(cg, call.current_node) # None
        THEN NextNodeIs(cg, call, FirstEdge(cg, call.current_node))
        ELSE IF j # 0
        THEN [call EXCEPT !.pc = "await_cond", !.cond_idx = j,
                          !.trace = Append(@, CondEvent(call.current_node, j,
                                                        call.current_data)),
                          !.inflight = @ \cup {Len(call.trace) + 1}]
        ELSE NextNodeIs(cg, call, None)

\* (mutant) the predicate is called on the state the call was started
\* with, not on the current data
ResolveFromInput(cg, call, i) ==
    LET j == NextCond(cg, call.current_node, i)
    IN  IF j # 0
        THEN [call EXCEPT !.pc = "await_cond", !.cond_idx = j,
                          !.trace = Append(@, CondEvent(call.current_node, j,
                                                        call.input)),
                          !.inflight = @ \cup {Len(call.trace) + 1}]
        ELSE NextNodeIs(cg, call, FirstEdge(cg, call.current_node))

\* get_next_node from conditional edge i on, up to its next await: the
\* predicate of the next conditional edge out of the current node is called
\* on a clone of the data; without one the unconditional edges decide
ResolveFrom(cg, call, i) ==
    LET j == NextCond(cg, call.current_node, i)
    IN  IF j # 0
        THEN [call EXCEPT !.pc = "await_cond", !.cond_idx = j,
                          !.trace = Append(@, CondEvent(call.current_node, j,
                                                        call.current_data)),
                          !.inflight = @ \cup {Len(call.trace) + 1}]
        ELSE NextNodeIs(cg, call, FirstEdge(cg, call.current_node))

\* (mutant) a transform's error is ignored: the loop goes on with the state
\* the node was given
AfterNodeIgnoresErr(cg, call) ==
    LET r == ApplyNode(cg.nodes[call.current_node], call.current_data)
        back == Awaited(call)
    IN  ResolveFrom(cg, IF r.tag = "Err" THEN back
                        ELSE [back EXCEPT !.current_data = r.val], 1)

\* (mutant) the transform's output is dropped: the loop goes on with the
\* state the node was given
AfterNodeStale(cg, call) ==
    LET r == ApplyNode(cg.nodes[call.current_node], call.current_data)
        back == Awaited(call)
    IN  IF r.tag = "Err"
        THEN [back EXCEPT !.pc = "done", !.result = Err(ExecutionError(r.err))]
        ELSE ResolveFrom(cg, back, 1)

\* execute: the awaited transform has returned: an error ends the run, a
\* new state replaces the current data and the resolver starts
AfterNode(cg, call) ==
    LET r == ApplyNode(cg.nodes[call.current_node], call.current_data)
        back == Awaited(call)
    IN  IF r.tag = "Err"
        THEN [back EXCEPT !.pc = "done", !.result = Err(ExecutionError(r.err))]
        ELSE ResolveFrom(cg, [back EXCEPT !.current_data = r.val], 1)

\* (mutant) execute_with_start hands the resolver the state the node was
\* given, which is also what the next node receives
AfterNodeWSStale(cg, call) ==
    LET r == ApplyNode(cg.nodes[call.current_node], call.current_data)
        back == Awaited(call)
    IN  IF r.tag = "Err"
        THEN [back EXCEPT !.pc = "done", !.result = Err(ExecutionError(r.err))]
        ELSE ResolveFrom(cg, back, 1)

\* execute_with_start: the awaited transform has returned
AfterNodeWS(cg, call) ==
    LET r == ApplyNode(cg.nodes[call.current_node], call.current_data)
        back == Awaited(call)
    IN  IF r.tag = "Err"
        THEN [back EXCEPT !.pc = "done", !.result = Err(ExecutionError(r.err))]
        ELSE ResolveFrom(cg, [back EXCEPT !.current_data = r.val], 1)

\* the loop that awaits the transform is the loop of the operation called
LoopAfterNode(cg, call) ==
    IF call.api = "execute_with_start"
    THEN AfterNodeWS(cg, call)
    ELSE AfterNode(cg, call)

\* (mutant) the predicate is handed the state itself and not a clone: what
\* it leaves behind is what the loop goes on with
AfterCondAlters(cg, call) ==
    LET ce == cg.conditional_edges[call.cond_idx]
        label == EvalCond(ce.condition, call.current_data)
        back == [Awaited(call) EXCEPT !.current_data = 0]
    IN  IF label \in DOMAIN ce.mapping
        THEN NextNodeIs(cg, back, Some(ce.mapping[label]))
        ELSE ResolveFrom(cg, back, call.cond_idx + 1)

\* (mutant) a label that is absent from the mapping ends the resolution:
\* no further conditional edge and no unconditional edge is consulted
AfterCondMissEnds(cg, call) ==
    LET ce == cg.conditional_edges[call.cond_idx]
        label == EvalCond(ce.condition, call.current_data)
        back == Awaited(call)
    IN  IF label \in DOMAIN ce.mapping
        THEN NextNodeIs(cg, back, Some(ce.mapping[label]))
        ELSE NextNodeIs(cg, back, None)

\* the awaited predicate has returned its label: a mapping hit is the next
\* node, a miss moves on to the following conditional edge
AfterCond(cg, call) ==
    LET ce == cg.conditional_edges[call.cond_idx]
        label == EvalCond(ce.condition, call.current_data)
        back == Awaited(call)
    IN  IF label \in DOMAIN ce.mapping
        THEN NextNodeIs(cg, back, Some(ce.mapping[label]))
        ELSE ResolveFrom(cg, back, call.cond_idx + 1)

\* CompiledGraph::execute up to its first await: the start node is found
\* and its transform called on the input, or the call fails
BeginExecute(cg, call, input) ==
    LET started == [call EXCEPT !.api = "execute", !.input = input]
        start == StartNode(cg)
    IN  IF start = None
        THEN [started EXCEPT !.pc = "done", !.result = Err(NoEntryPoint)]
        ELSE EnterNode(cg, [started EXCEPT !.current_data = input], start[1])

\* (mutant) execute_with_start resolves the entry point as execute does
\* before it looks at start_node
BeginExecuteWithStartViaEntry(cg, call, start_node, input) ==
    LET started == [call EXCEPT !.api = "execute_with_start",
                                !.start_arg = start_node, !.input = input]
    IN  IF StartNode(cg) = None
        THEN [started EXCEPT !.pc = "done", !.result = Err(NoEntryPoint)]
        ELSE EnterNodeWS(cg, [started EXCEPT !.current_data = input], start_node)

\* CompiledGraph::execute_with_start up to its first await
BeginExecuteWithStart(cg, call, start_node, input) ==
    EnterNodeWS(cg, [call EXCEPT !.api = "execute_with_start",
                               !.start_arg = start_node,
                               !.input = input, !.current_data = input],
              start_node)

\* (mutant) execute records the start node it resolved in the graph's
\* entry_point
ExecuteRecordsEntry(c, input) ==
    /\ phase = "compiled"
    /\ calls[c].pc = "idle"
    /\ calls' = [calls EXCEPT ![c] = BeginExecute(compiled[1], calls[c], input)]
    /\ compiled' = Some([compiled[1] EXCEPT !.entry_point = StartNode(compiled[1])])
    /\ UNCHANGED <<graph, phase, compile_result, rpc, sse, uri>>

\* a caller calls execute(input)
Execute(c, input) ==
    /\ phase = "compiled"
    /\ calls[c].pc = "idle"
    /\ calls' = [calls EXCEPT ![c] = BeginExecute(compiled[1], calls[c], input)]
    /\ UNCHANGED <<graph, phase, compiled, compile_result, rpc, sse, uri>>

\* a caller calls execute_with_start(start_node, input)
ExecuteWithStart(c, start_node, input) ==
    /\ phase = "compiled"
    /\ calls[c].pc = "idle"
    /\ calls' = [calls EXCEPT ![c] =
                    BeginExecuteWithStart(compiled[1], calls[c], start_node, input)]
    /\ UNCHANGED <<graph, phase, compiled, compile_result, rpc, sse, uri>>

\* (mutant) current_data is a field shared by the calls of a CompiledGraph:
\* what one call stores is what every running call reads next
NodeReturnsShared(c, cap) ==
    /\ phase = "compiled"
    /\ calls[c].pc = "await_node"
    /\ LET new == LoopAfterNode(compiled[1], calls[c])
       IN  calls' = [d \in DOMAIN calls |->
                IF d = c THEN new
                ELSE IF calls[d].pc \in {"await_node", "await_cond"}
                THEN [calls[d] EXCEPT !.current_data = new.current_data]
                ELSE calls[d]]
    /\ Invocations(calls'[c].trace) <= cap
    /\ UNCHANGED <<graph, phase, compiled, compile_result, rpc, sse, uri>>

\* the loop of execute / execute_with_start resumes after node_fn(..).await
NodeReturns(c, cap) ==
    /\ phase = "compiled"
    /\ calls[c].pc = "await_node"
    /\ calls' = [calls EXCEPT ![c] = LoopAfterNode(compiled[1], calls[c])]
    /\ Invocations(calls'[c].trace) <= cap
    /\ UNCHANGED <<graph, phase, compiled, compile_result, rpc, sse, uri>>

\* get_next_node resumes after (conditional_edge.condition)(..).await
CondReturns(c, cap) ==
    /\ phase = "compiled"
    /\ calls[c].pc = "await_cond"
    /\ calls' = [calls EXCEPT ![c] = AfterCond(compiled[1], calls[c])]
    /\ Invocations(calls'[c].trace) <= cap
    /\ UNCHANGED <<graph, phase, compiled, compile_result, rpc, sse, uri>>

----------------------------------------------------------------------------
(* Specification of the executor: one call on any small compiled graph *)

SeqsOfLen(S, n) == [1..n -> S]

SeqsUpTo(S, n) == UNION {SeqsOfLen(S, k) : k \in 0..n}

RunNames == {"a", "b"}

RunFns == {"inc", "fail"}

Thresholds == {2}

RunInputs == {0, 1}

RunNodeMaps == UNION {[D -> RunFns] : D \in {{"a"}, {"a", "b"}}}

RunEdges == {Edge(f, t) : f \in {START} \cup RunNames, t \in RunNames \cup {END}}

RunMappings ==
    {[low |-> "b", high |-> END], [low |-> END, high |-> "a"],
     [low |-> "a"], [high |-> "b"]}

RunConds ==
    {ConditionalEdge(f, k, m) : f \in RunNames, k \in Thresholds, m \in RunMappings}

\* the graphs with at most n transitions that a caller can build
GraphsUpTo(nodemaps, edges, conds, n) ==
    UNION {
        {[nodes |-> nm, edges |-> e, conditional_edges |-> c, entry_point |-> None] :
            nm \in nodemaps, e \in SeqsOfLen(edges, k), c \in SeqsUpTo(conds, n - k)}
        : k \in 0..n}

\* the state after Graph::new()...compile() returned Ok for a graph of gs
InitCompiled(gs, callids) ==
    /\ graph \in gs
    /\ Ok(Freeze(graph)) \in CompileOutcomes(graph)
    /\ phase = "compiled"
    /\ compile_result = Ok(Freeze(graph))
    /\ compiled = Some(Freeze(graph))
    /\ calls = [c \in callids |-> IdleCall]
    /\ rpc = IdleRpc
    /\ sse = NoStream
    /\ uri = NoUri

Init == InitCompiled(GraphsUpTo(RunNodeMaps, RunEdges, RunConds, MaxTrans), {1})

Next ==
    \/ \E c \in DOMAIN calls, x \in RunInputs : Execute(c, x)
    \/ \E c \in DOMAIN calls, x \in RunInputs, s \in RunNames :
            ExecuteWithStart(c, s, x)
    \/ \E c \in DOMAIN calls : NodeReturns(c, MaxSteps)
    \/ \E c \in DOMAIN calls : CondReturns(c, MaxSteps)

Spec == Init /\ [][Next]_vars

----------------------------------------------------------------------------
(* Vocabulary for the properties of a run.  The trace of a call lists, in   *)
(* order, every transform and predicate the call has invoked, each with the *)
(* state it was given.                                                      *)

TheGraph == compiled[1]

Started(call) == call.pc # "idle"

Done(call) == call.pc = "done"

Returned(call, r) == call.pc = "done" /\ call.result = r

IsNodeEv(call, p) == p \in 1..Len(call.trace) /\ call.trace[p].ev = "node"

IsCondEv(call, p) == p \in 1..Len(call.trace) /\ call.trace[p].ev = "cond"

\* the invocation at position p has returned: the call went on to another
\* invocation or ended
Completed(call, p) == p < Len(call.trace) \/ Done(call)

\* what the transform invoked at position p answers
Outcome(cg, call, p) == ApplyNode(cg.nodes[call.trace[p].node], call.trace[p].data)

Fails(cg, call, p) == IsNodeEv(call, p) /\ Outcome(cg, call, p).tag = "Err"

\* the state the resolver works on after the invocation at p: a node's
\* output, or the state a predicate was given
StateAfter(cg, call, p) ==
    IF call.trace[p].ev = "node" THEN Outcome(cg, call, p).val ELSE call.trace[p].data

\* the names of the nodes invoked, in order
NodeSeq(call) ==
    LET RECURSIVE Names(_)
        Names(p) == IF p > Len(call.trace) THEN <<>>
                    ELSE (IF call.trace[p].ev = "node"
                          THEN <<call.trace[p].node>> ELSE <<>>) \o Names(p + 1)
    IN  Names(1)

TimesInvoked(call, node) ==
    Cardinality({p \in 1..Len(call.trace) : IsNodeEv(call, p) /\ call.trace[p].node = node})

\* the positions of the transforms invoked after position p
LaterNodes(call, p) == {q \in (p + 1)..Len(call.trace) : call.trace[q].ev = "node"}

\* the resolution that followed the invocation at p is over
Resolved(call, p) == LaterNodes(call, p) # {} \/ Done(call)

\* after position p the run ended, returning the state d
Ends(call, p, d) == LaterNodes(call, p) = {} /\ Returned(call, Ok(d))

\* after position p the next node was `to`, invoked on d (END: the run ended)
GoesTo(call, p, to, d) ==
    IF to = END THEN Ends(call, p, d)
    ELSE /\ LaterNodes(call, p) # {}
         /\ call.trace[MinOf(LaterNodes(call, p))] = NodeEvent(to, d)

EdgesFrom(cg, n) == {i \in 1..Len(cg.edges) : cg.edges[i].from = n}

CondsFrom(cg, n) ==
    {j \in 1..Len(cg.conditional_edges) : cg.conditional_edges[j].from = n}

\* the predicate of conditional edge j, given d, answers a label of its mapping
IsHit(cg, j, d) ==
    EvalCond(cg.conditional_edges[j].condition, d)
        \in DOMAIN cg.conditional_edges[j].mapping

HitTarget(cg, j, d) ==
    cg.conditional_edges[j].mapping[EvalCond(cg.conditional_edges[j].condition, d)]

NoEntry(cg) == cg.entry_point = None /\ EdgesFrom(cg, START) = {}

----------------------------------------------------------------------------
(* Linear graphs START -> n1 -> ... -> nk -> END *)

MaxChain == 3

ChainNames == <<"a", "b", "c", "d", "e">>

ChainFns == {"inc", "dbl"}

ChainInputs == {0, 1}

ChainEdges(k) ==
    [i \in 1..(k + 1) |->
        Edge(IF i = 1 THEN START ELSE ChainNames[i - 1],
             IF i = k + 1 THEN END ELSE ChainNames[i])]

Reverse(seq) == [i \in 1..Len(seq) |-> seq[Len(seq) + 1 - i]]

\* the chains of k nodes, their edges declared first to last or last to first
LinearGraphs(k) ==
    {[nodes |-> [n \in {ChainNames[i] : i \in 1..k} |->
                    fs[CHOOSE i \in 1..k : ChainNames[i] = n]],
      edges |-> e, conditional_edges |-> <<>>, entry_point |-> None] :
        fs \in [1..k -> ChainFns], e \in {ChainEdges(k), Reverse(ChainEdges(k))}}

InitLinear == InitCompiled(UNION {LinearGraphs(k) : k \in 1..MaxChain}, {1})

NextLinear ==
    \/ \E c \in DOMAIN calls, x \in ChainInputs : Execute(c, x)
    \/ \E c \in DOMAIN calls : NodeReturns(c, MaxChain)

SpecLinear == InitLinear /\ [][NextLinear]_vars

ChainLen == Cardinality(DOMAIN TheGraph.nodes)

\* the transforms of the chain from node i on, applied to x in chain order
RECURSIVE Composed(_, _)
Composed(i, x) ==
    IF i > ChainLen THEN x
    ELSE Composed(i + 1, ApplyNode(TheGraph.nodes[ChainNames[i]], x).val)

\* C3: on a linear graph without conditional edges and failing transforms
\* execute(s) invokes the nodes in chain order, each once, and returns the
\* composition of the transforms applied to s; a run that has not returned
\* has invoked a proper prefix of the chain and can take its next step
C3_LinearChain ==
    \A c \in DOMAIN calls :
        LET call == calls[c]
        IN  Started(call) =>
            /\ Len(NodeSeq(call)) \in 1..ChainLen
            /\ NodeSeq(call) = SubSeq(ChainNames, 1, Len(NodeSeq(call)))
            /\ call.trace[1].data = call.input
            /\ Done(call) =>
                /\ NodeSeq(call) = SubSeq(ChainNames, 1, ChainLen)
                /\ \A i \in 1..ChainLen : TimesInvoked(call, ChainNames[i]) = 1
                /\ call.result = Ok(Composed(1, call.input))
            /\ ~Done(call) => ENABLED NextLinear

\* C3 witness: A -> B -> END with two increments, execute(0) returned 2
C3_Witness ==
    /\ TheGraph.nodes = [a |-> "inc", b |-> "inc"]
    /\ calls[1].input = 0
    /\ Returned(calls[1], Ok(2))
    /\ NodeSeq(calls[1]) = <<"a", "b">>

----------------------------------------------------------------------------
(* The loop graph: START -> check, check -low-> increase, check -high-> END, *)
(* increase -> check                                                         *)

MaxK == 3

LoopInputs == -1..MaxK

\* the node invocations a run of the loop graph from LoopInputs can need
LoopSteps == 2 * (MaxK + 1) + 1

LoopGraphs ==
    {[nodes |-> [check |-> "noop", increase |-> "inc"],
      edges |-> e,
      conditional_edges |->
        <<ConditionalEdge("check", k, [low |-> "increase", high |-> END])>>,
      entry_point |-> None] :
        k \in 1..MaxK,
        e \in {<<Edge(START, "check"), Edge("increase", "check")>>,
               <<Edge("increase", "check"), Edge(START, "check")>>}}

InitLoop == InitCompiled(LoopGraphs, {1})

NextLoop ==
    \/ \E c \in DOMAIN calls, x \in LoopInputs : Execute(c, x)
    \/ \E c \in DOMAIN calls : NodeReturns(c, LoopSteps)
    \/ \E c \in DOMAIN calls : CondReturns(c, LoopSteps)

SpecLoop == InitLoop /\ [][NextLoop]_vars

\* an awaited transform or predicate future completes and the call resumes
SpecLoopFair ==
    /\ SpecLoop
    /\ WF_vars(\E c \in DOMAIN calls : NodeReturns(c, LoopSteps))
    /\ WF_vars(\E c \in DOMAIN calls : CondReturns(c, LoopSteps))

LoopK == TheGraph.conditional_edges[1].condition

\* C4: on the loop graph every execute from a state below k terminates,
\* having invoked `increase` exactly k - initial times, and returns k
C4_LoopTerminates ==
    \A c \in {1} : \A x \in LoopInputs :
        (Started(calls[c]) /\ calls[c].input = x /\ x < LoopK)
            ~> (/\ Returned(calls[c], Ok(LoopK))
                /\ TimesInvoked(calls[c], "increase") = LoopK - x)

\* C4 witness: k = 3, execute(0) has returned after three passes
C4_Witness ==
    /\ LoopK = 3
    /\ calls[1].input = 0
    /\ Returned(calls[1], Ok(3))
    /\ TimesInvoked(calls[1], "increase") = 3
    /\ TimesInvoked(calls[1], "check") = 4

----------------------------------------------------------------------------
(* Properties of a single run on any small compiled graph *)

\* C5: a transform that returns an error is the last thing its run invokes:
\* no transform and no predicate follows it, and once it has returned the
\* run has ended with ExecutionError and without a state
C5_FailFast ==
    \A c \in DOMAIN calls : \A p \in 1..Len(calls[c].trace) :
        Fails(TheGraph, calls[c], p) =>
            /\ p = Len(calls[c].trace)
            /\ IF Done(calls[c])
               THEN calls[c].result =
                        Err(ExecutionError(Outcome(TheGraph, calls[c], p).err))
               ELSE calls[c].pc = "await_node"

\* C5 witness: a run that ended with ExecutionError in its second node or
\* later, at a node with an edge to a registered node
C5_Witness ==
    LET call == calls[1]
        last == call.trace[Len(call.trace)]
    IN  /\ Done(call)
        /\ call.result.tag = "Err"
        /\ call.result.err.kind = "ExecutionError"
        /\ Len(call.trace) >= 2
        /\ \E i \in EdgesFrom(TheGraph, last.node) :
                Registered(TheGraph, TheGraph.edges[i].to)

\* C7: execute on a graph without an entry point and without an edge out of
\* START returns NoEntryPoint, having invoked no transform and no predicate
C7_NoEntryPoint ==
    \A c \in DOMAIN calls :
        (calls[c].api = "execute" /\ NoEntry(TheGraph)) =>
            /\ Returned(calls[c], Err(NoEntryPoint))
            /\ calls[c].trace = <<>>

\* C7 witness: execute failed with NoEntryPoint on a graph that has a node
\* and an edge
C7_Witness ==
    /\ calls[1].api = "execute"
    /\ Returned(calls[1], Err(NoEntryPoint))
    /\ Registered(TheGraph, "a")
    /\ Len(TheGraph.edges) > 0

\* C8: on a graph without an entry point and without an edge out of START,
\* execute_with_start at a registered name invokes that node first, on the
\* initial state, never fails with NoEntryPoint, and returns success when
\* the run ends without a failed transform
C8_StartOverride ==
    \A c \in DOMAIN calls :
        LET call == calls[c]
        IN  (/\ call.api = "execute_with_start"
             /\ NoEntry(TheGraph)
             /\ Registered(TheGraph, call.start_arg)) =>
                /\ Len(call.trace) >= 1
                /\ call.trace[1] = NodeEvent(call.start_arg, call.input)
                /\ Done(call) => call.result # Err(NoEntryPoint)
                /\ (Done(call) /\ \A p \in 1..Len(call.trace) :
                                    ~Fails(TheGraph, call, p))
                        => call.result.tag = "Ok"

\* C8 witness: such a run through two nodes that returned success
C8_Witness ==
    /\ calls[1].api = "execute_with_start"
    /\ NoEntry(TheGraph)
    /\ Done(calls[1])
    /\ calls[1].result.tag = "Ok"
    /\ Len(NodeSeq(calls[1])) >= 2

\* C9: when a node has an unconditional edge and a conditional edge whose
\* predicate answers a label of its mapping, the run goes on to the mapping
\* target of the first such conditional edge (END: it ends), on the node's
\* output, and not to the target of the unconditional edge
C9_ConditionalFirst ==
    \A c \in DOMAIN calls : \A p \in 1..Len(calls[c].trace) :
        LET call == calls[c]
            n == call.trace[p].node
        IN  (IsNodeEv(call, p) /\ ~Fails(TheGraph, call, p) /\ Resolved(call, p)) =>
            LET d == StateAfter(TheGraph, call, p)
                hits == {j \in CondsFrom(TheGraph, n) : IsHit(TheGraph, j, d)}
            IN  (hits # {} /\ EdgesFrom(TheGraph, n) # {}) =>
                    GoesTo(call, p, HitTarget(TheGraph, MinOf(hits), d), d)

\* C9 witness: a node with a matching conditional edge and an unconditional
\* edge to another target has been left for the mapping target
C9_Witness ==
    \E p \in 1..Len(calls[1].trace) :
        LET call == calls[1]
            n == call.trace[p].node
        IN  /\ IsNodeEv(call, p) /\ ~Fails(TheGraph, call, p) /\ Resolved(call, p)
            /\ \E j \in CondsFrom(TheGraph, n), i \in EdgesFrom(TheGraph, n) :
                /\ IsHit(TheGraph, j, StateAfter(TheGraph, call, p))
                /\ HitTarget(TheGraph, j, StateAfter(TheGraph, call, p))
                        # TheGraph.edges[i].to
                /\ HitTarget(TheGraph, j, StateAfter(TheGraph, call, p)) # END
                /\ TheGraph.edges[i].to # END

\* the predicate invoked at position q answered a label that is not in its
\* mapping
IsMiss(cg, call, q) ==
    IsCondEv(call, q) /\ ~IsHit(cg, call.trace[q].idx, call.trace[q].data)

FirstEdgeTarget(cg, n) == cg.edges[MinOf(EdgesFrom(cg, n))].to

\* C10 as stated: after a predicate label that is absent from its mapping
\* the run goes on to the target of the first unconditional edge out of the
\* current node, and without such an edge it ends, returning the current state
C10_MissGoesToEdge ==
    \A c \in DOMAIN calls : \A q \in 1..Len(calls[c].trace) :
        LET call == calls[c]
            n == call.trace[q].node
            d == call.trace[q].data
        IN  (IsMiss(TheGraph, call, q) /\ Resolved(call, q)) =>
                IF EdgesFrom(TheGraph, n) # {}
                THEN GoesTo(call, q, FirstEdgeTarget(TheGraph, n), d)
                ELSE Ends(call, q, d)

\* C10 amended: a predicate label that is absent from its mapping is never
\* an error: the next conditional edge declared for the current node is
\* consulted; after the last of them the run goes on to the target of the
\* first unconditional edge out of the current node, and without such an
\* edge it ends successfully, returning the current (post-transform) state
C10_MissFallsThrough ==
    \A c \in DOMAIN calls : \A q \in 1..Len(calls[c].trace) :
        LET call == calls[c]
            n == call.trace[q].node
            d == call.trace[q].data
            later == {j \in CondsFrom(TheGraph, n) : j > call.trace[q].idx}
        IN  (IsMiss(TheGraph, call, q) /\ Completed(call, q)) =>
                IF later # {}
                THEN /\ q < Len(call.trace)
                     /\ call.trace[q + 1] = CondEvent(n, MinOf(later), d)
                ELSE IF EdgesFrom(TheGraph, n) # {}
                THEN GoesTo(call, q, FirstEdgeTarget(TheGraph, n), d)
                ELSE Ends(call, q, d)

\* C10 witness: a run that ended successfully right after a label that was
\* absent from the mapping, at a node without an unconditional edge
C10_Witness ==
    LET call == calls[1]
        q == Len(call.trace)
    IN  /\ q >= 2
        /\ IsMiss(TheGraph, call, q)
        /\ EdgesFrom(TheGraph, call.trace[q].node) = {}
        /\ Returned(call, Ok(StateAfter(TheGraph, call, q - 1)))

----------------------------------------------------------------------------
(* Two concurrent execute calls on one CompiledGraph *)

InitConc == InitCompiled(LoopGraphs, {1, 2})

NextConc ==
    \/ \E c \in DOMAIN calls, x \in LoopInputs :
            /\ \A d \in DOMAIN calls \ {c} : Started(calls[d]) => calls[d].input # x
            /\ Execute(c, x)
    \/ \E c \in DOMAIN calls : NodeReturns(c, LoopSteps)
    \/ \E c \in DOMAIN calls : CondReturns(c, LoopSteps)

SpecConc == InitConc /\ [][NextConc]_vars

\* one call run alone: the step it takes when its awaited future returns
StepAlone(cg, call) ==
    IF call.pc = "await_node" THEN LoopAfterNode(cg, call)
    ELSE IF call.pc = "await_cond" THEN AfterCond(cg, call)
    ELSE call

\* the call n steps after execute(input) began, no other call running
RECURSIVE RunAlone(_, _, _)
RunAlone(cg, input, n) ==
    IF n = 0 THEN BeginExecute(cg, IdleCall, input)
    ELSE StepAlone(cg, RunAlone(cg, input, n - 1))

\* more steps than any run of the loop graph from LoopInputs takes
AloneSteps == 2 * LoopSteps

\* every call is where it would be after some number of steps of its run
\* alone, and a call that returned holds what that run returns
AsIfAlone ==
    \A c \in DOMAIN calls :
        Started(calls[c]) =>
            /\ \E n \in 0..AloneSteps :
                calls[c] = RunAlone(TheGraph, calls[c].input, n)
            /\ Done(calls[c]) =>
                calls[c].result =
                    RunAlone(TheGraph, calls[c].input, AloneSteps).result

\* a step changes one call and leaves every other call as it was
OneCallSteps ==
    \A c \in DOMAIN calls :
        calls'[c] # calls[c] =>
            \A d \in DOMAIN calls \ {c} : calls'[d] = calls[d]

\* C6: two execute calls with different initial states, interleaved at
\* their awaits in any order, each proceed and return as they would alone,
\* and no step of one changes the current node or state of the other
C6_Independent == [](AsIfAlone) /\ [][OneCallSteps]_vars

\* C6 witness: call 1 has returned k after a pass through `increase` while
\* call 2, started from another state, is in the middle of its own run
C6_Witness ==
    /\ Returned(calls[1], Ok(LoopK))
    /\ TimesInvoked(calls[1], "increase") >= 1
    /\ calls[2].pc = "await_cond"
    /\ TimesInvoked(calls[2], "increase") >= 1
    /\ calls[2].input # calls[1].input
    /\ calls[2].current_data # LoopK

----------------------------------------------------------------------------
(* How a run ends *)

\* what the resolver answers at node n on the state d: the mapping target of
\* the first conditional edge of n whose predicate answers a label of its
\* mapping, or else the target of the first unconditional edge of n, or None
Answer(cg, n, d) ==
    LET hits == {j \in CondsFrom(cg, n) : IsHit(cg, j, d)}
    IN  IF hits # {} THEN Some(HitTarget(cg, MinOf(hits), d))
        ELSE IF EdgesFrom(cg, n) # {} THEN Some(FirstEdgeTarget(cg, n))
        ELSE None

\* the transform invoked at p returned a state and the resolution that
\* followed is over
Left(cg, call, p) == IsNodeEv(call, p) /\ ~Fails(cg, call, p) /\ Resolved(call, p)

\* C11: when the resolver answers END after a node, and when it finds no
\* transition after a node, the run ends there with success: no transform is
\* invoked afterwards (none for END either) and the value returned is the
\* output of that node, the last transform invoked
C11_EndsWithLastOutput ==
    \A c \in DOMAIN calls : \A p \in 1..Len(calls[c].trace) :
        LET call == calls[c]
            d == StateAfter(TheGraph, call, p)
        IN  (/\ Left(TheGraph, call, p)
             /\ Answer(TheGraph, call.trace[p].node, d) \in {None, Some(END)}) =>
                /\ LaterNodes(call, p) = {}
                /\ Returned(call, Ok(Outcome(TheGraph, call, p).val))

\* C11 witness: a run through two nodes that ended because a conditional
\* edge of the second node led to END, returning a state other than its input
C11_Witness ==
    \E p \in 2..Len(calls[1].trace) :
        LET call == calls[1]
            d == StateAfter(TheGraph, call, p)
        IN  /\ Left(TheGraph, call, p)
            /\ Len(NodeSeq(call)) >= 2
            /\ CondsFrom(TheGraph, call.trace[p].node) # {}
            /\ Answer(TheGraph, call.trace[p].node, d) = Some(END)
            /\ Returned(call, Ok(d))
            /\ d # call.input

----------------------------------------------------------------------------
(* execute and execute_with_start, side by side *)

\* the call n steps after execute_with_start(start_node, input) began
RECURSIVE RunAloneWS(_, _, _, _)
RunAloneWS(cg, start_node, input, n) ==
    IF n = 0 THEN BeginExecuteWithStart(cg, IdleCall, start_node, input)
    ELSE StepAlone(cg, RunAloneWS(cg, start_node, input, n - 1))

\* what a call has done and where it stands, whichever operation it is:
\* invocations and predicate evaluations in order, current node and state,
\* result
Course(call) ==
    [pc |-> call.pc, current_node |-> call.current_node,
     current_data |-> call.current_data, cond_idx |-> call.cond_idx,
     result |-> call.result, trace |-> call.trace, inflight |-> call.inflight]

\* the number of steps a started call has taken since it began: every step
\* but the last adds one invocation to the trace
StepsTaken(call) == IF Done(call) THEN Len(call.trace) ELSE Len(call.trace) - 1

\* cg with START -> t declared before every other edge
StartingAt(cg, t) == [cg EXCEPT !.edges = <<Edge(START, t)>> \o @]

\* C12: an execute(s) call on a graph whose resolved start node is t stands,
\* after every step, where execute_with_start(t, s) stands after as many
\* steps, and an execute_with_start(t, s) call stands where execute(s) stands
\* on the same graph with t as its resolved start node: same invocations and
\* predicate evaluations in the same order, same current node and state,
\* same result
C12_SameCourse ==
    \A c \in DOMAIN calls :
        LET call == calls[c]
        IN  /\ (call.api = "execute" /\ StartNode(TheGraph) # None) =>
                    Course(call) =
                        Course(RunAloneWS(TheGraph, StartNode(TheGraph)[1],
                                          call.input, StepsTaken(call)))
            /\ call.api = "execute_with_start" =>
                    Course(call) =
                        Course(RunAlone(StartingAt(TheGraph, call.start_arg),
                                        call.input, StepsTaken(call)))

\* C12 witness: execute_with_start has returned success from a node that is
\* not the graph's own start node, after two transforms and a predicate
C12_Witness ==
    /\ calls[1].api = "execute_with_start"
    /\ StartNode(TheGraph) # None
    /\ StartNode(TheGraph) # Some(calls[1].start_arg)
    /\ Done(calls[1])
    /\ calls[1].result.tag = "Ok"
    /\ Len(NodeSeq(calls[1])) >= 2
    /\ \E p \in 1..Len(calls[1].trace) : IsCondEv(calls[1], p)

----------------------------------------------------------------------------
(* NodeNotFound at run time *)

IsNodeNotFound(r) == r.tag = "Err" /\ r.err.kind = "NodeNotFound"

\* C13: on a compiled graph a call returns NodeNotFound only when it is an
\* execute_with_start call whose start name is not registered; an execute
\* call never returns NodeNotFound
C13_NodeNotFoundOnlyBadStart ==
    \A c \in DOMAIN calls :
        LET call == calls[c]
        IN  (Done(call) /\ IsNodeNotFound(call.result)) =>
                /\ call.api = "execute_with_start"
                /\ ~Registered(TheGraph, call.start_arg)

\* C14: execute_with_start with a start name that is not registered has
\* failed with NodeNotFound(name) as soon as it is called, and has invoked
\* no transform and evaluated no predicate
C14_UnknownStartFails ==
    \A c \in DOMAIN calls :
        LET call == calls[c]
        IN  (call.api = "execute_with_start"
                /\ ~Registered(TheGraph, call.start_arg)) =>
                /\ Returned(call, Err(NodeNotFound(call.start_arg)))
                /\ call.trace = <<>>
                /\ call.inflight = {}

\* C14 witness: such a call on a graph that has a start edge, and an edge
\* and a conditional edge out of its registered node
C14_Witness ==
    /\ calls[1].api = "execute_with_start"
    /\ ~Registered(TheGraph, calls[1].start_arg)
    /\ Done(calls[1])
    /\ StartNode(TheGraph) # None
    /\ CondIdx(TheGraph) # {}

----------------------------------------------------------------------------
(* The registry and the references of a graph *)

\* C15: START and END are never keys of the node registry, in the Graph
\* under construction and in the CompiledGraph produced from it
C15_SentinelsNeverRegistered ==
    /\ ~Registered(graph, START)
    /\ ~Registered(graph, END)
    /\ compiled # None =>
            ~Registered(compiled[1], START) /\ ~Registered(compiled[1], END)

\* C16: in a CompiledGraph every endpoint of an unconditional edge, every
\* `from` of a conditional edge and every mapping target is a sentinel or a
\* registered name
C16_CompiledReferencesResolve ==
    compiled # None => Dangling(compiled[1]) = {}

\* C16 witness: a compiled graph with an edge out of START, and a
\* conditional edge with a registered target and END among its targets
C16_Witness ==
    /\ compiled # None
    /\ \E i \in EdgeIdx(compiled[1]) : compiled[1].edges[i].from = START
    /\ \E j \in CondIdx(compiled[1]) :
        /\ END \in MappingTargets(compiled[1].conditional_edges[j])
        /\ \E n \in MappingTargets(compiled[1].conditional_edges[j]) :
                Registered(compiled[1], n)

\* a step leaves the CompiledGraph as compile returned it
GraphUntouched ==
    /\ compiled' = compiled
    /\ compile_result' = compile_result
    /\ graph' = graph

\* a step of a call changes nothing of the call but its position, current
\* node, current state, pending predicate, and what it has invoked and
\* returned
OnlyRunFields ==
    \A c \in DOMAIN calls :
        calls[c].pc # "idle" =>
            /\ calls'[c].api = calls[c].api
            /\ calls'[c].start_arg = calls[c].start_arg
            /\ calls'[c].input = calls[c].input

\* C17: no step of an execute or execute_with_start call, whether the call
\* goes on, fails or returns, changes the compiled graph's node registry,
\* edge list, conditional-edge list or entry_point
C17_GraphFrozen == [][GraphUntouched /\ OnlyRunFields]_vars

\* C17 witness: an execute call has failed in its second transform, after a
\* predicate evaluation, and the compiled graph is the one compile returned
C17_Witness ==
    /\ calls[1].api = "execute"
    /\ Done(calls[1])
    /\ calls[1].result.tag = "Err"
    /\ Len(NodeSeq(calls[1])) >= 2
    /\ \E p \in 1..Len(calls[1].trace) : IsCondEv(calls[1], p)
    /\ compiled = Some(Freeze(graph))
    /\ compile_result = Ok(Freeze(graph))

----------------------------------------------------------------------------
(* The start node of execute.  The expression of graph.rs:185-191 reads the *)
(* edges and the entry_point field of the CompiledGraph; no method of the   *)
(* builder assigns entry_point, so its values are drawn here from the       *)
(* values the field's type admits.                                          *)

EntryPoints == {None} \cup {Some(n) : n \in RunNames}

\* compiled graphs without conditional edges, with any entry_point
EntryGraphs ==
    {[g EXCEPT !.entry_point = e] :
        g \in GraphsUpTo(RunNodeMaps, RunEdges, {}, MaxTrans), e \in EntryPoints}

InitEntry == InitCompiled(EntryGraphs, {1})

NextEntry ==
    \/ \E c \in DOMAIN calls, x \in RunInputs : Execute(c, x)
    \/ \E c \in DOMAIN calls : NodeReturns(c, MaxSteps)

SpecEntry == InitEntry /\ [][NextEntry]_vars

\* C18: the start node of execute is the target of the first declared edge
\* out of START when there is one, whatever entry_point records, and the
\* recorded entry_point otherwise; when it is registered, the first transform
\* invoked is that node's, on the initial state as it was passed; without
\* either the call fails with NoEntryPoint
C18_StartResolution ==
    \A c \in DOMAIN calls :
        LET call == calls[c]
            se == EdgesFrom(TheGraph, START)
            start == IF se # {} THEN Some(TheGraph.edges[MinOf(se)].to)
                     ELSE TheGraph.entry_point
        IN  call.api = "execute" =>
                IF start = None
                THEN Returned(call, Err(NoEntryPoint)) /\ call.trace = <<>>
                ELSE IF Registered(TheGraph, start[1])
                THEN /\ Len(call.trace) >= 1
                     /\ call.trace[1] = NodeEvent(start[1], call.input)
                ELSE call.trace = <<>>

\* C18 witness: with two edges out of START to different nodes and an
\* entry_point naming the second, execute has run the target of the first
\* edge on its input and returned
C18_Witness ==
    /\ calls[1].api = "execute"
    /\ Done(calls[1])
    /\ calls[1].result.tag = "Ok"
    /\ \E i, j \in EdgesFrom(TheGraph, START) :
        /\ i < j
        /\ i = MinOf(EdgesFrom(TheGraph, START))
        /\ TheGraph.edges[i].to # TheGraph.edges[j].to
        /\ TheGraph.entry_point = Some(TheGraph.edges[j].to)
        /\ calls[1].trace[1] = NodeEvent(TheGraph.edges[i].to, calls[1].input)

----------------------------------------------------------------------------
(* Recording an entry point *)

\* what the claim says set_entry_point(name) does to the graph under
\* construction
SetEntryPointEffect(name) ==
    graph' = [graph EXCEPT !.edges = Append(@, Edge(START, name)),
                           !.entry_point = Some(name)]

\* C19: while a graph is under construction, some builder operation appends
\* the edge START -> name and records entry_point = name, for any name
C19_SetEntryPointOffered ==
    (phase = "building" /\ GraphSize(graph) < MaxOps) =>
        \A name \in BuildNames : ENABLED (NextBuild /\ SetEntryPointEffect(name))

----------------------------------------------------------------------------
(* One future at a time *)

\* C20: within one call at most one transform or predicate is in progress:
\* whenever a transform or predicate is invoked, every invocation made
\* before it has returned, so a node's transform starts after the previous
\* transform and the predicates of the previous resolution have completed,
\* and a predicate is evaluated after the current transform has completed;
\* a suspended call waits for the invocation it made last, and a call that
\* has returned has nothing in progress
C20_OneAtATime ==
    \A c \in DOMAIN calls :
        LET call == calls[c]
        IN  /\ Cardinality(call.inflight) <= 1
            /\ call.inflight \subseteq {Len(call.trace)}
            /\ call.pc \in {"await_node", "await_cond"} =>
                    call.inflight = {Len(call.trace)}
            /\ call.pc \in {"idle", "done"} => call.inflight = {}

\* C20 witness: a call waits for the second predicate of its second node;
\* the transforms and predicates invoked before it have all returned
C20_Witness ==
    LET call == calls[1]
        n == Len(call.trace)
    IN  /\ call.pc = "await_cond"
        /\ n >= 4
        /\ IsCondEv(call, n) /\ IsCondEv(call, n - 1)
        /\ Len(NodeSeq(call)) >= 2
        /\ call.inflight = {n}

----------------------------------------------------------------------------
(* Cycles: graphs of the shape of the agent loop (a node with a conditional *)
(* edge, a second node with an edge back), with and without a way out       *)

CycleFns == {"inc", "noop", "fail"}

CycleMappings ==
    {[low |-> "a", high |-> "b"], [low |-> "b", high |-> "a"],
     [low |-> "a", high |-> END], [low |-> "b"]}

CycleTails ==
    {<<>>, <<Edge("b", "a")>>, <<Edge("b", END)>>, <<Edge("a", "b"), Edge("b", "a")>>}

CycleGraphs ==
    {[nodes |-> [a |-> f, b |-> g],
      edges |-> <<Edge(START, "a")>> \o tail,
      conditional_edges |-> <<ConditionalEdge("a", k, m)>>,
      entry_point |-> None] :
        f \in CycleFns, g \in CycleFns, tail \in CycleTails,
        k \in {1, 2}, m \in CycleMappings}

InitCycle == InitCompiled(CycleGraphs, {1})

NextCycle ==
    \/ \E c \in DOMAIN calls, x \in RunInputs : Execute(c, x)
    \/ \E c \in DOMAIN calls : NodeReturns(c, MaxSteps)
    \/ \E c \in DOMAIN calls : CondReturns(c, MaxSteps)

SpecCycle == InitCycle /\ [][NextCycle]_vars

\* the states a run of at most MaxSteps + 1 transforms can hold
CycleData == 0..(MaxSteps + 2)

\* no transform of cg fails and, at every node and on every state, the
\* resolver answers a node: never END, never the absence of a transition
NeverEnds(cg) ==
    /\ \A n \in DOMAIN cg.nodes : cg.nodes[n] # "fail"
    /\ \A n \in DOMAIN cg.nodes, d \in CycleData :
            Answer(cg, n, d) \notin {None, Some(END)}

\* the position of the last transform a call invoked (0: none)
LastNode(call) ==
    LET s == {p \in 1..Len(call.trace) : call.trace[p].ev = "node"}
    IN  IF s = {} THEN 0 ELSE CHOOSE p \in s : \A q \in s : q <= p

\* why a call that has returned stopped: the resolver answered END or found
\* no transition after the last transform, a transform failed, a node lookup
\* failed, or there was no start node to begin with
StoppedForCause(cg, call) ==
    LET p == LastNode(call)
    IN  \/ /\ call.result.tag = "Ok"
           /\ p # 0 /\ ~Fails(cg, call, p)
           /\ Answer(cg, call.trace[p].node, StateAfter(cg, call, p))
                \in {None, Some(END)}
        \/ /\ call.result.tag = "Err" /\ call.result.err.kind = "ExecutionError"
           /\ p = Len(call.trace) /\ Fails(cg, call, p)
        \/ /\ IsNodeNotFound(call.result)
           /\ ~Registered(cg, call.result.err.arg)
        \/ call.result = Err(NoEntryPoint) /\ call.trace = <<>>

\* the awaiting call c can take its next step
CanStep(c) == ENABLED (NodeReturns(c, MaxSteps) \/ CondReturns(c, MaxSteps))

\* C21: a call that has returned stopped for one of the four causes (END,
\* no transition, failed transform, failed lookup) or for want of a start
\* node; on a graph whose transforms never fail and whose resolver never
\* answers END or nothing, execute has not returned however many transforms
\* it has invoked, and it can always take a further step: the count of
\* invocations is limited by the model's bound only
C21_NoIterationCap ==
    \A c \in DOMAIN calls :
        LET call == calls[c]
        IN  /\ Done(call) => StoppedForCause(TheGraph, call)
            /\ (call.api = "execute" /\ NeverEnds(TheGraph)) =>
                    /\ ~Done(call)
                    /\ call.pc \in {"await_node", "await_cond"}
                    /\ Invocations(call.trace) < MaxSteps => CanStep(c)

\* C21 witness: on such a graph execute has invoked MaxSteps transforms,
\* some of them twice, with predicates in between, and is still running
C21_Witness ==
    /\ calls[1].api = "execute"
    /\ NeverEnds(TheGraph)
    /\ Invocations(calls[1].trace) = MaxSteps
    /\ TimesInvoked(calls[1], "a") >= 2
    /\ TimesInvoked(calls[1], "b") >= 2
    /\ \E p \in 1..Len(calls[1].trace) : IsCondEv(calls[1], p)
    /\ ~Done(calls[1])

----------------------------------------------------------------------------
(* The builder: order of registration, re-registration, compile *)

\* C22: add_edge and add_conditional_edges record what they are given,
\* whether or not the names are registered, and registering a node before
\* or after an edge or conditional edge gives the same Graph and so the same
\* result of compile
C22_OrderIndependent ==
    (phase = "building" /\ GraphSize(graph) + 2 <= MaxOps) =>
        \A name \in BuildNames, f \in BuildFns, from \in BuildNames :
            /\ \A to \in BuildNames :
                LET nodeFirst == WithEdge(WithNode(graph, name, f), from, to)
                    edgeFirst == WithNode(WithEdge(graph, from, to), name, f)
                IN  /\ edgeFirst.edges = Append(graph.edges, Edge(from, to))
                    /\ nodeFirst = edgeFirst
                    /\ CompileOutcomes(nodeFirst) = CompileOutcomes(edgeFirst)
            /\ \A mapping \in BuildMappings :
                LET nodeFirst == WithConditionalEdges(WithNode(graph, name, f),
                                                      from, 2, mapping)
                    edgeFirst == WithNode(WithConditionalEdges(graph, from, 2, mapping),
                                          name, f)
                IN  /\ edgeFirst.conditional_edges =
                            Append(graph.conditional_edges,
                                   ConditionalEdge(from, 2, mapping))
                    /\ nodeFirst = edgeFirst
                    /\ CompileOutcomes(nodeFirst) = CompileOutcomes(edgeFirst)

\* C22 witness: a graph under construction holds an edge to a name that is
\* not registered; registering that name after one more edge out of it gives
\* a graph that compiles
C22_Witness ==
    /\ phase = "building"
    /\ GraphSize(graph) + 2 <= MaxOps
    /\ \E name \in Dangling(graph), f \in BuildFns :
        LET g == WithNode(WithEdge(graph, name, END), name, f)
        IN  /\ Ok(Freeze(g)) \in CompileOutcomes(g)
            /\ Ok(Freeze(graph)) \notin CompileOutcomes(graph)

\* C23: add_node(n, f2) on a graph where n is registered leaves the registry
\* with the same names, n bound to f2 (running n applies f2), every other
\* node bound as before, and the edge list, the conditional-edge list and
\* entry_point unchanged
C23_ReRegistrationOverwrites ==
    phase = "building" =>
        \A name \in DOMAIN graph.nodes, f2 \in BuildFns :
            LET after == WithNode(graph, name, f2)
            IN  /\ ENABLED (AddNode(name, f2) /\ graph' = after)
                /\ DOMAIN after.nodes = DOMAIN graph.nodes
                /\ after.nodes[name] = f2
                /\ \A x \in RunInputs :
                        ApplyNode(Freeze(after).nodes[name], x) = ApplyNode(f2, x)
                /\ \A n \in DOMAIN graph.nodes \ {name} :
                        after.nodes[n] = graph.nodes[n]
                /\ after.edges = graph.edges
                /\ after.conditional_edges = graph.conditional_edges
                /\ after.entry_point = graph.entry_point

\* C23 witness: a graph under construction with two nodes and an edge,
\* which is what add_node gives when one of the nodes is registered again
\* over another transform
C23_Witness ==
    /\ phase = "building"
    /\ Len(graph.edges) >= 1
    /\ Cardinality(DOMAIN graph.nodes) >= 2
    /\ \E n \in DOMAIN graph.nodes, f1 \in BuildFns :
        /\ f1 # graph.nodes[n]
        /\ graph = WithNode([graph EXCEPT !.nodes[n] = f1], n, graph.nodes[n])

\* C24: after a successful compile the CompiledGraph has the node registry,
\* the edges in declaration order, the conditional edges in declaration
\* order and the entry_point of the Graph compile was called on; after a
\* failed compile there is an error and no CompiledGraph
C24_CompileFreezes ==
    /\ phase = "compiled" =>
        /\ compiled # None
        /\ compile_result = Ok(compiled[1])
        /\ compiled[1].nodes = graph.nodes
        /\ compiled[1].edges = graph.edges
        /\ compiled[1].conditional_edges = graph.conditional_edges
        /\ compiled[1].entry_point = graph.entry_point
    /\ phase = "failed" =>
        /\ compiled = None
        /\ compile_result.tag = "Err"
    /\ phase = "building" => compiled = None /\ compile_result = Pending

\* C24 witness: a compiled graph with a node, two different edges in the
\* order they were declared
C24_Witness ==
    /\ phase = "compiled"
    /\ Len(graph.edges) = 2
    /\ graph.edges[1] # graph.edges[2]
    /\ compiled[1].edges = graph.edges
    /\ DOMAIN compiled[1].nodes # {}

----------------------------------------------------------------------------
(* What a predicate is given *)

\* the position of the last transform invoked before position q (0: none)
NodeBefore(call, q) ==
    LET s == {p \in 1..(q - 1) : call.trace[p].ev = "node"}
    IN  IF s = {} THEN 0 ELSE CHOOSE p \in s : \A r \in s : r <= p

\* C25: every predicate evaluation follows a transform of the conditional
\* edge's `from` node with nothing but predicates of that node in between;
\* that transform returned a state, and the predicate is given that state,
\* the transform's output
C25_PostTransformState ==
    \A c \in DOMAIN calls : \A q \in 1..Len(calls[c].trace) :
        LET call == calls[c]
            p == NodeBefore(call, q)
        IN  IsCondEv(call, q) =>
                /\ p # 0
                /\ call.trace[p].node = call.trace[q].node
                /\ TheGraph.conditional_edges[call.trace[q].idx].from
                        = call.trace[p].node
                /\ ~Fails(TheGraph, call, p)
                /\ call.trace[q].data = Outcome(TheGraph, call, p).val

\* C25 witness: the predicate of the second node of a run was given that
\* node's output, which is neither the node's input nor the run's input
C25_Witness ==
    \E q \in 1..Len(calls[1].trace) :
        LET call == calls[1]
            p == NodeBefore(call, q)
        IN  /\ IsCondEv(call, q)
            /\ p >= 2
            /\ call.trace[q].data # call.trace[p].data
            /\ call.trace[q].data # call.input
            /\ call.trace[p].data # call.input

----------------------------------------------------------------------------
(* The OpenAI client (clients/openai.rs): chat_completions and              *)
(* stream_chat_completions up to their return.                              *)
(*                                                                          *)
(* request.stream is an Option<bool>; request.cancellation_token is "none"  *)
(* (no token), "live" or "cancelled".  key_ok says whether the API key      *)
(* makes a valid Authorization header.                                      *)

\* the graph engine plays no part in the client
NoGraph ==
    /\ graph = NewGraph
    /\ phase = "building"
    /\ compiled = None
    /\ compile_result = Pending
    /\ calls = [c \in {1} |-> IdleCall]

\* the stream returned when the request is cancelled before a response:
\* futures::stream::empty()
EmptyStream == [NoStream EXCEPT !.st = "ended"]

\* result_stream over a response body, before its first poll ("open": at
\* the top of its loop; "polling": awaiting the next network chunk)
OpenStream(body) == [NoStream EXCEPT !.st = "open", !.body = body]

\* (mutant) chat_completions sends the request first and looks at the
\* stream flag afterwards
ChatCompletionsLateCheck(stream, token, key_ok) ==
    /\ rpc.pc = "idle"
    /\ rpc' = [rpc EXCEPT !.api = "chat_completions", !.stream = stream,
                          !.token = token, !.sent = @ + 1, !.sent_stream = stream,
                          !.pc = "done",
                          !.result = IF stream = Some(TRUE)
                                     THEN Err(StreamingNotSupported("chat_completions"))
                                     ELSE Err(ReqwestError)]
    /\ UNCHANGED <<graph, phase, compiled, compile_result, calls, sse, uri>>

\* Client::chat_completions up to its first await
ChatCompletions(stream, token, key_ok) ==
    /\ rpc.pc = "idle"
    /\ LET started == [rpc EXCEPT !.api = "chat_completions", !.stream = stream,
                                  !.token = token]
       IN  rpc' =
            IF stream = Some(TRUE)
            THEN [started EXCEPT !.pc = "done",
                    !.result = Err(StreamingNotSupported("chat_completions"))]
            ELSE IF token = "cancelled"
            THEN [started EXCEPT !.pc = "done", !.result = Err(Cancelled)]
            ELSE IF ~key_ok
            THEN [started EXCEPT !.pc = "done", !.result = Err(InvalidHeaderValue)]
            ELSE [started EXCEPT !.pc = "await_send", !.sent = @ + 1,
                                 !.sent_stream = stream]
    /\ UNCHANGED <<graph, phase, compiled, compile_result, calls, sse, uri>>

\* Client::stream_chat_completions up to its first await; the body sent has
\* "stream": true whatever the request says
StreamChatCompletions(stream, token, key_ok) ==
    /\ rpc.pc = "idle"
    /\ LET started == [rpc EXCEPT !.api = "stream_chat_completions",
                                  !.stream = stream, !.token = token]
       IN  /\ rpc' =
                IF stream = Some(FALSE)
                THEN [started EXCEPT !.pc = "done",
                        !.result = Err(StreamingNotSupported("stream_chat_completions"))]
                ELSE IF token = "cancelled"
                THEN [started EXCEPT !.pc = "done", !.result = Ok("stream")]
                ELSE IF ~key_ok
                THEN [started EXCEPT !.pc = "done", !.result = Err(InvalidHeaderValue)]
                ELSE [started EXCEPT !.pc = "await_send", !.sent = @ + 1,
                                     !.sent_stream = Some(TRUE)]
           /\ sse' = IF stream # Some(FALSE) /\ token = "cancelled"
                     THEN EmptyStream ELSE sse
    /\ UNCHANGED <<graph, phase, compiled, compile_result, calls, uri>>

\* the holder of the cancellation token cancels it
Cancel ==
    /\ rpc.token = "live"
    /\ rpc.pc # "idle"
    /\ rpc' = [rpc EXCEPT !.token = "cancelled"]
    /\ UNCHANGED <<graph, phase, compiled, compile_result, calls, sse, uri>>

SendOutcomes == {"aborted", "transport_error", "status_error", "bad_json", "success"}

\* the Abortable request future resolves: aborted (only once the token is
\* cancelled), failed, answered with an error status, or answered
SendReturns(outcome, body) ==
    /\ rpc.pc = "await_send"
    /\ outcome = "aborted" => rpc.token = "cancelled"
    /\ outcome = "bad_json" => rpc.api = "chat_completions"
    /\ rpc' = [rpc EXCEPT !.pc = "done", !.result =
            CASE outcome = "aborted" ->
                    IF rpc.api = "chat_completions" THEN Err(Cancelled) ELSE Ok("stream")
              [] outcome = "transport_error" -> Err(ReqwestError)
              [] outcome = "status_error" -> Err(UnknownError("response text"))
              [] outcome = "bad_json" -> Err(ReqwestError)
              [] outcome = "success" ->
                    IF rpc.api = "chat_completions" THEN Ok("response") ELSE Ok("stream")]
    /\ sse' = IF rpc.api = "stream_chat_completions"
              THEN (IF outcome = "aborted" THEN EmptyStream
                    ELSE IF outcome = "success" THEN OpenStream(body)
                    ELSE sse)
              ELSE sse
    /\ UNCHANGED <<graph, phase, compiled, compile_result, calls, uri>>

----------------------------------------------------------------------------
(* result_stream: the parser of the streamed response.                      *)
(*                                                                          *)
(* A body is a sequence of bytes.  The bytes of the model: "d" stands for   *)
(* the six bytes of the prefix `data: `, "nl" for the newline, "E" for the  *)
(* text [DONE], "a" for ASCII text of a JSON chunk, "x" for text that is    *)
(* not JSON, "c" for other ASCII text, and "hi" "lo" are the two bytes of   *)
(* one two-byte UTF-8 character of a chunk's content.  The characters of a  *)
(* String are the ASCII bytes, "ch" (the two-byte character) and "fffd"     *)
(* (U+FFFD, the replacement character).                                     *)

\* String::from_utf8_lossy on the bytes of one network chunk: a lead byte
\* with its continuation byte is the character, a lead byte without it and a
\* continuation byte without lead are replaced by U+FFFD
RECURSIVE Utf8Lossy(_)
Utf8Lossy(bytes) ==
    IF bytes = <<>> THEN <<>>
    ELSE IF bytes[1] = "hi"
    THEN IF Len(bytes) >= 2 /\ bytes[2] = "lo"
         THEN <<"ch">> \o Utf8Lossy(SubSeq(bytes, 3, Len(bytes)))
         ELSE <<"fffd">> \o Utf8Lossy(Tail(bytes))
    ELSE IF bytes[1] = "lo"
    THEN <<"fffd">> \o Utf8Lossy(Tail(bytes))
    ELSE <<bytes[1]>> \o Utf8Lossy(Tail(bytes))

\* remaining.find('\n'): the index of the first newline (0: none)
FindNewline(s) ==
    LET at == {i \in 1..Len(s) : s[i] = "nl"}
    IN  IF at = {} THEN 0 ELSE MinOf(at)

\* serde_json::from_str::<ChatCompletionChunk>(data): text of a chunk, with
\* any characters in its content, parses; the empty text and text that is
\* not JSON do not
ParseChunk(data) ==
    IF data # <<>> /\ \A i \in 1..Len(data) : data[i] \in {"a", "ch", "fffd"}
    THEN Ok(data) ELSE Err("serde")

\* (mutant) a payload that does not parse ends the stream
ProcessLinesStopOnError(remaining, items) ==
    LET RECURSIVE Go(_, _)
        Go(rem, its) ==
            LET newline_pos == FindNewline(rem)
                line == SubSeq(rem, 1, newline_pos - 1)
                rest == SubSeq(rem, newline_pos + 1, Len(rem))
            IN  IF newline_pos = 0
                THEN [remaining |-> rem, items |-> its, returned |-> FALSE]
                ELSE IF line # <<>> /\ line[1] = "d"
                THEN IF Tail(line) = <<"E">> \/ ParseChunk(Tail(line)).tag = "Err"
                     THEN [remaining |-> rest, items |-> its, returned |-> TRUE]
                     ELSE Go(rest, Append(its, ParseChunk(Tail(line))))
                ELSE Go(rest, its)
    IN  Go(remaining, items)

\* (mutant) the end marker is a line like any other: it does not parse and
\* is skipped
ProcessLinesIgnoreDone(remaining, items) ==
    LET RECURSIVE Go(_, _)
        Go(rem, its) ==
            LET newline_pos == FindNewline(rem)
                line == SubSeq(rem, 1, newline_pos - 1)
                rest == SubSeq(rem, newline_pos + 1, Len(rem))
            IN  IF newline_pos = 0
                THEN [remaining |-> rem, items |-> its, returned |-> FALSE]
                ELSE IF line # <<>> /\ line[1] = "d"
                THEN IF ParseChunk(Tail(line)).tag = "Ok"
                     THEN Go(rest, Append(its, ParseChunk(Tail(line))))
                     ELSE Go(rest, its)
                ELSE Go(rest, its)
    IN  Go(remaining, items)

\* the `while let Some(newline_pos)` loop over the buffer: every complete
\* line is taken off; a `data: ` line yields its chunk when the payload
\* parses and is skipped when it does not; `data: [DONE]` returns
ProcessLines(remaining, items) ==
    LET RECURSIVE Go(_, _)
        Go(rem, its) ==
            LET newline_pos == FindNewline(rem)
                line == SubSeq(rem, 1, newline_pos - 1)
                rest == SubSeq(rem, newline_pos + 1, Len(rem))
            IN  IF newline_pos = 0
                THEN [remaining |-> rem, items |-> its, returned |-> FALSE]
                ELSE IF line # <<>> /\ line[1] = "d"
                THEN IF Tail(line) = <<"E">>
                     THEN [remaining |-> rest, items |-> its, returned |-> TRUE]
                     ELSE IF ParseChunk(Tail(line)).tag = "Ok"
                     THEN Go(rest, Append(its, ParseChunk(Tail(line))))
                     ELSE Go(rest, its)
                ELSE Go(rest, its)
    IN  Go(remaining, items)

\* the top of the loop: a cancelled token ends the stream, otherwise the
\* next network chunk is awaited
PollNext ==
    /\ sse.st = "open"
    /\ sse' = [sse EXCEPT !.st = IF rpc.token = "cancelled" THEN "ended" ELSE "polling"]
    /\ UNCHANGED <<graph, phase, compiled, compile_result, calls, rpc, uri>>

\* stream.next() answers Some(Ok(chunk)) with the next n bytes of the body:
\* the chunk is decoded and appended to the buffer, the complete lines are
\* processed and the rest is kept
ChunkArrives(n) ==
    /\ sse.st = "polling"
    /\ n \in 1..(Len(sse.body) - sse.pos)
    /\ LET chunk == SubSeq(sse.body, sse.pos + 1, sse.pos + n)
           chunk_str == Utf8Lossy(chunk)
           r == ProcessLines(sse.buffer \o chunk_str, sse.items)
       IN  sse' = [sse EXCEPT
                    !.pos = @ + n,
                    !.items = r.items,
                    !.buffer = IF r.returned THEN <<>> ELSE r.remaining,
                    !.st = IF r.returned THEN "ended" ELSE "open"]
    /\ UNCHANGED <<graph, phase, compiled, compile_result, calls, rpc, uri>>

\* stream.next() answers Some(Err(e)): the error is yielded and the loop
\* left
ChunkFails ==
    /\ sse.st = "polling"
    /\ sse.pos < Len(sse.body)
    /\ sse' = [sse EXCEPT !.items = Append(@, Err(UnknownError("Failed to read response"))),
                          !.st = "ended"]
    /\ UNCHANGED <<graph, phase, compiled, compile_result, calls, rpc, uri>>

\* stream.next() answers None: the body has been read
BodyEnds ==
    /\ sse.st = "polling"
    /\ sse.pos = Len(sse.body)
    /\ sse' = [sse EXCEPT !.st = "ended"]
    /\ UNCHANGED <<graph, phase, compiled, compile_result, calls, rpc, uri>>

StreamFlags == {None, Some(TRUE), Some(FALSE)}

Tokens == {"none", "live", "cancelled"}

\* response bodies of the client specification: one chunk line and the end
\* marker; an empty body
ClientBodies == {<<"d", "a", "nl", "d", "E", "nl">>, <<>>}

InitClient == NoGraph /\ rpc = IdleRpc /\ sse = NoStream /\ uri = NoUri

NextClient ==
    \/ \E s \in StreamFlags, k \in Tokens, ok \in BOOLEAN : ChatCompletions(s, k, ok)
    \/ \E s \in StreamFlags, k \in Tokens, ok \in BOOLEAN : StreamChatCompletions(s, k, ok)
    \/ Cancel
    \/ \E o \in SendOutcomes, b \in ClientBodies : SendReturns(o, b)
    \/ PollNext
    \/ \E n \in 1..Len(sse.body) : ChunkArrives(n)
    \/ ChunkFails
    \/ BodyEnds

SpecClient == InitClient /\ [][NextClient]_vars

\* C26: a stream_chat_completions call on a request with stream =
\* Some(false), and a chat_completions call on a request with stream =
\* Some(true), has returned StreamingNotSupported as soon as it is made, and
\* no HTTP request was sent
C26_MismatchedFlagRejected ==
    /\ (rpc.api = "stream_chat_completions" /\ rpc.stream = Some(FALSE)) =>
            /\ rpc.pc = "done"
            /\ rpc.result.tag = "Err"
            /\ rpc.result.err.kind = "StreamingNotSupported"
            /\ rpc.sent = 0
            /\ sse = NoStream
    /\ (rpc.api = "chat_completions" /\ rpc.stream = Some(TRUE)) =>
            /\ rpc.pc = "done"
            /\ rpc.result.tag = "Err"
            /\ rpc.result.err.kind = "StreamingNotSupported"
            /\ rpc.sent = 0

\* C26 witness: chat_completions was called with stream = Some(true) on a
\* request whose token is live and whose key is valid, and has returned
C26_Witness ==
    /\ rpc.api = "chat_completions"
    /\ rpc.stream = Some(TRUE)
    /\ rpc.token = "live"
    /\ rpc.pc = "done"
    /\ rpc.sent = 0

----------------------------------------------------------------------------
(* The streams of the OpenAI client read on their own: every body of up to  *)
(* MaxLines lines, cut into network chunks in every way.                    *)

\* the lines a body is made of: a chunk of ASCII text, another one, a chunk
\* with a two-byte character in its content, a payload that is not JSON, an
\* empty payload, the end marker, and the blank line between two events
LineShapes ==
    { <<"d", "a", "nl">>, <<"d", "a", "a", "nl">>, <<"d", "hi", "lo", "nl">>,
      <<"d", "x", "nl">>, <<"d", "nl">>, <<"d", "E", "nl">>, <<"nl">> }

\* the text a body may end with after its last newline
TailShapes == { <<>>, <<"d", "a">> }

RECURSIVE Concat(_)
Concat(ss) == IF ss = <<>> THEN <<>> ELSE Head(ss) \o Concat(Tail(ss))

Bodies ==
    { Concat(ls) \o tl :
        ls \in UNION {[1..n -> LineShapes] : n \in 0..MaxLines}, tl \in TailShapes }

\* stream_chat_completions has sent the request and returned the stream of
\* a successful response
InitStream ==
    /\ NoGraph
    /\ rpc = [IdleRpc EXCEPT !.pc = "done", !.api = "stream_chat_completions",
                             !.stream = Some(TRUE), !.token = "live", !.sent = 1,
                             !.sent_stream = Some(TRUE), !.result = Ok("stream")]
    /\ \E body \in Bodies : sse = OpenStream(body)
    /\ uri = NoUri

NextStream ==
    \/ PollNext
    \/ \E n \in 1..Len(sse.body) : ChunkArrives(n)
    \/ ChunkFails
    \/ BodyEnds
    \/ Cancel

SpecStream == InitStream /\ [][NextStream]_vars

\* the complete lines of a text, in order, without their newlines
RECURSIVE SplitLines(_)
SplitLines(s) ==
    LET p == FindNewline(s)
    IN  IF p = 0 THEN <<>>
        ELSE <<SubSeq(s, 1, p - 1)>> \o SplitLines(SubSeq(s, p + 1, Len(s)))

\* the complete lines of a body, decoded as a whole
BodyLines(body) == SplitLines(Utf8Lossy(body))

IsDone(line) == line = <<"d", "E">>

IsChunkLine(line) ==
    line # <<>> /\ line[1] = "d" /\ ParseChunk(Tail(line)).tag = "Ok"

\* the index of the first `data: [DONE]` among lines (0: none)
DoneIndex(lines) ==
    LET at == {i \in 1..Len(lines) : IsDone(lines[i])}
    IN  IF at = {} THEN 0 ELSE MinOf(at)

BeforeDone(lines) ==
    IF DoneIndex(lines) = 0 THEN lines ELSE SubSeq(lines, 1, DoneIndex(lines) - 1)

\* one chunk per complete, parseable `data: ` line before the end marker, in
\* body order
ExpectedItems(body) ==
    LET sel == SelectSeq(BeforeDone(BodyLines(body)), IsChunkLine)
    IN  [i \in 1..Len(sel) |-> Ok(Tail(sel[i]))]

\* the stream has ended by itself: not by a cancelled token and not by a
\* failed read
EndedByItself ==
    /\ sse.st = "ended"
    /\ rpc.token # "cancelled"
    /\ \A i \in 1..Len(sse.items) : sse.items[i].tag = "Ok"

\* C27: whatever the cuts between the network chunks, a stream that ended by
\* itself has yielded one chunk per complete, parseable `data: ` line of the
\* body, in body order
C27_SplitIndependent ==
    EndedByItself => sse.items = ExpectedItems(sse.body)

\* the number of bytes of the body up to and including the newline of its
\* first `data: [DONE]` line (0: the body has no such line)
DoneEnd(body) ==
    LET ends == {p \in 1..Len(body) :
                    /\ body[p] = "nl"
                    /\ DoneIndex(BodyLines(SubSeq(body, 1, p))) # 0}
    IN  IF ends = {} THEN 0 ELSE MinOf(ends)

\* a text with every two-byte character replaced by two U+FFFD
RECURSIVE Replaced(_)
Replaced(s) ==
    IF s = <<>> THEN <<>>
    ELSE (IF s[1] = "ch" THEN <<"fffd", "fffd">> ELSE <<s[1]>>) \o Replaced(Tail(s))

\* C28: a `data: ` line whose payload does not parse yields nothing and does
\* not end the stream: a stream that ended by itself has yielded exactly one
\* item per parseable line before the end marker, those after a malformed or
\* empty payload included, in order
C28_MalformedSkipped ==
    EndedByItself =>
        LET expected == ExpectedItems(sse.body)
        IN  /\ Len(sse.items) = Len(expected)
            /\ \A i \in 1..Len(expected) :
                    sse.items[i].val \in {expected[i].val, Replaced(expected[i].val)}

\* the lines of the body before the end marker include a `data: ` line that
\* does not parse, and a parseable line after it
MalformedThenChunk(body) ==
    LET lines == BeforeDone(BodyLines(body))
    IN  \E i, j \in 1..Len(lines) :
            /\ i < j
            /\ lines[i] # <<>> /\ lines[i][1] = "d" /\ ~IsChunkLine(lines[i])
            /\ IsChunkLine(lines[j])

\* C28 witness: a body with a malformed payload followed by a chunk has been
\* read in more than one network chunk to its end, and the chunk was yielded
C28_Witness ==
    /\ EndedByItself
    /\ MalformedThenChunk(sse.body)
    /\ DoneIndex(BodyLines(sse.body)) # 0
    /\ sse.pos > Len(sse.buffer)
    /\ sse.items # <<>>

\* C29: once the newline of `data: [DONE]` has been read the stream has
\* ended; nothing was yielded for the end marker and nothing for any line
\* after it, and a body of only `data: [DONE]` yields nothing
C29_DoneEndsStream ==
    LET done == DoneEnd(sse.body)
    IN  /\ (done # 0 /\ sse.pos >= done) => sse.st = "ended"
        /\ \A i \in 1..Len(sse.items) :
                sse.items[i].tag = "Ok" => sse.items[i].val # <<"E">>
        /\ done # 0 =>
                Len(SelectSeq(sse.items, LAMBDA it : it.tag = "Ok"))
                    <= Len(ExpectedItems(SubSeq(sse.body, 1, done)))
        /\ (sse.body = <<"d", "E", "nl">> /\ EndedByItself) => sse.items = <<>>

\* C29 witness: a body with a chunk line after its end marker was read past
\* the end marker, and the stream ended by itself
C29_Witness ==
    /\ EndedByItself
    /\ DoneEnd(sse.body) # 0
    /\ sse.pos >= DoneEnd(sse.body)
    /\ Len(ExpectedItems(sse.body)) > 0
    /\ \E i \in 1..Len(BodyLines(sse.body)) :
            i > DoneIndex(BodyLines(sse.body)) /\ IsChunkLine(BodyLines(sse.body)[i])

----------------------------------------------------------------------------
(* utils::uri.  A String is the sequence of its characters; "a" and ":"     *)
(* stand for the characters that are not a slash.                           *)

EndsWithSlash(url) == url # <<>> /\ url[Len(url)] = "/"

\* ensure_no_trailing_slash: url[..url.len() - 1] when url ends with '/',
\* url otherwise
ensure_no_trailing_slash(url) ==
    IF EndsWithSlash(url) THEN SubSeq(url, 1, Len(url) - 1) ELSE url

\* ensure_trailing_slash
ensure_trailing_slash(url) ==
    IF EndsWithSlash(url) THEN ensure_no_trailing_slash(url) \o <<"/">>
    ELSE url \o <<"/">>

UrlChars == {"a", ":", "/"}

Urls == UNION {[1..n -> UrlChars] : n \in 0..MaxUrl}

CallEnsureNoTrailingSlash ==
    /\ uri.fn = ""
    /\ uri' = [uri EXCEPT !.fn = "ensure_no_trailing_slash",
                          !.out = ensure_no_trailing_slash(uri.url)]
    /\ UNCHANGED <<graph, phase, compiled, compile_result, calls, rpc, sse>>

CallEnsureTrailingSlash ==
    /\ uri.fn = ""
    /\ uri' = [uri EXCEPT !.fn = "ensure_trailing_slash",
                          !.out = ensure_trailing_slash(uri.url)]
    /\ UNCHANGED <<graph, phase, compiled, compile_result, calls, rpc, sse>>

InitUri ==
    /\ NoGraph
    /\ rpc = IdleRpc
    /\ sse = NoStream
    /\ \E url \in Urls : uri = [NoUri EXCEPT !.url = url]

NextUri == CallEnsureNoTrailingSlash \/ CallEnsureTrailingSlash

SpecUri == InitUri /\ [][NextUri]_vars

\* a url without its trailing slashes
RECURSIVE TrimSlashes(_)
TrimSlashes(url) ==
    IF EndsWithSlash(url) THEN TrimSlashes(SubSeq(url, 1, Len(url) - 1)) ELSE url

\* C30: what ensure_no_trailing_slash returns does not end with '/': it is
\* the url with all of its trailing slashes removed, and the url itself when
\* it has no trailing slash
C30_NoTrailingSlash ==
    uri.fn = "ensure_no_trailing_slash" =>
        /\ ~EndsWithSlash(uri.out)
        /\ uri.out = TrimSlashes(uri.url)
        /\ ~EndsWithSlash(uri.url) => uri.out = uri.url

\* C31: what ensure_trailing_slash returns ends with exactly one '/': it is
\* the url without its trailing slashes, followed by one '/'
C31_ExactlyOneTrailingSlash ==
    uri.fn = "ensure_trailing_slash" =>
        /\ EndsWithSlash(uri.out)
        /\ ~EndsWithSlash(SubSeq(uri.out, 1, Len(uri.out) - 1))
        /\ uri.out = TrimSlashes(uri.url) \o <<"/">>

----------------------------------------------------------------------------
(* Order of resolution *)

\* the positions of the predicates evaluated in the resolution that followed
\* the transform at position p
CondsAfter(call, p) ==
    {q \in (p + 1)..Len(call.trace) :
        /\ call.trace[q].ev = "cond"
        /\ \A r \in (p + 1)..q : call.trace[r].ev = "cond"}

\* C32: when several conditional edges leave a node, the first declared of
\* those whose predicate answers a label of its own mapping gives the next
\* node; a miss on an earlier one is neither an error nor the end of the run
C32_DeclarationOrder ==
    \A c \in DOMAIN calls : \A p \in 1..Len(calls[c].trace) :
        LET call == calls[c]
            n == call.trace[p].node
        IN  (/\ IsNodeEv(call, p) /\ ~Fails(TheGraph, call, p) /\ Resolved(call, p)
             /\ Cardinality(CondsFrom(TheGraph, n)) >= 2) =>
            LET d == StateAfter(TheGraph, call, p)
                hits == {j \in CondsFrom(TheGraph, n) : IsHit(TheGraph, j, d)}
            IN  hits # {} =>
                    /\ GoesTo(call, p, HitTarget(TheGraph, MinOf(hits), d), d)
                    /\ LaterNodes(call, p) = {} => call.result.tag = "Ok"
                    /\ \A j \in CondsFrom(TheGraph, n) :
                            j < MinOf(hits) =>
                                \E q \in CondsAfter(call, p) : call.trace[q].idx = j

\* C32 witness: a node with two conditional edges was left for the mapping
\* target of the second, after the predicate of the first had answered a
\* label that its mapping does not have
C32_Witness ==
    \E p \in 1..Len(calls[1].trace) :
        LET call == calls[1]
            n == call.trace[p].node
            d == StateAfter(TheGraph, call, p)
        IN  /\ IsNodeEv(call, p) /\ ~Fails(TheGraph, call, p)
            /\ LaterNodes(call, p) # {}
            /\ CondsFrom(TheGraph, n) = {1, 2}
            /\ ~IsHit(TheGraph, 1, d)
            /\ IsHit(TheGraph, 2, d)
            /\ call.trace[MinOf(LaterNodes(call, p))].node = HitTarget(TheGraph, 2, d)

\* C33: when no conditional edge out of a node yields a match and
\* unconditional edges leave it, the run goes on to the target of the first
\* of them in declaration order, whatever the later ones are
C33_FirstEdgeWins ==
    \A c \in DOMAIN calls : \A p \in 1..Len(calls[c].trace) :
        LET call == calls[c]
            n == call.trace[p].node
        IN  (IsNodeEv(call, p) /\ ~Fails(TheGraph, call, p) /\ Resolved(call, p)) =>
            LET d == StateAfter(TheGraph, call, p)
                hits == {j \in CondsFrom(TheGraph, n) : IsHit(TheGraph, j, d)}
                first == MinOf(EdgesFrom(TheGraph, n))
            IN  (hits = {} /\ EdgesFrom(TheGraph, n) # {}) =>
                    /\ GoesTo(call, p, TheGraph.edges[first].to, d)
                    /\ \A i \in EdgesFrom(TheGraph, n) :
                            TheGraph.edges[i].to # TheGraph.edges[first].to =>
                                ~GoesTo(call, p, TheGraph.edges[i].to, d)

\* C33 witness: a node with two unconditional edges to different nodes was
\* left for the target of the first
C33_Witness ==
    \E p \in 1..Len(calls[1].trace) :
        LET call == calls[1]
            n == call.trace[p].node
        IN  /\ IsNodeEv(call, p) /\ ~Fails(TheGraph, call, p)
            /\ LaterNodes(call, p) # {}
            /\ EdgesFrom(TheGraph, n) = {1, 2}
            /\ TheGraph.edges[1].to # TheGraph.edges[2].to
            /\ TheGraph.edges[2].to # END
            /\ call.trace[MinOf(LaterNodes(call, p))].node = TheGraph.edges[1].to

\* C36: the predicates evaluated in one resolution are those of the
\* conditional edges out of the current node, first declared first, up to
\* and including the first whose label is in its mapping: none after it and
\* none of another node
C36_OnlyOwnPredicates ==
    \A c \in DOMAIN calls : \A p \in 1..Len(calls[c].trace) :
        LET call == calls[c]
            n == call.trace[p].node
        IN  IsNodeEv(call, p) =>
            LET evaluated == CondsAfter(call, p)
                hits == {j \in CondsFrom(TheGraph, n) :
                            IsHit(TheGraph, j, StateAfter(TheGraph, call, p))}
                due == IF hits = {} THEN CondsFrom(TheGraph, n)
                       ELSE {j \in CondsFrom(TheGraph, n) : j <= MinOf(hits)}
            IN  /\ \A q \in evaluated :
                    /\ TheGraph.conditional_edges[call.trace[q].idx].from = n
                    /\ call.trace[q].idx \in due
                    /\ \A r \in evaluated : r < q => call.trace[r].idx < call.trace[q].idx
                /\ Resolved(call, p) /\ ~Fails(TheGraph, call, p) =>
                    {call.trace[q].idx : q \in evaluated} = due

\* C36 witness: a resolution is over in which the predicate of the first of
\* the two conditional edges of the node answered a label of its mapping,
\* and was the only predicate evaluated
C36_Witness ==
    \E p \in 1..Len(calls[1].trace) :
        LET call == calls[1]
            n == call.trace[p].node
        IN  /\ IsNodeEv(call, p) /\ ~Fails(TheGraph, call, p) /\ Resolved(call, p)
            /\ CondsFrom(TheGraph, n) = {1, 2}
            /\ IsHit(TheGraph, 1, StateAfter(TheGraph, call, p))
            /\ CondsAfter(call, p) = {p + 1}

----------------------------------------------------------------------------
(* Which violation compile reports *)

FromViolates(g, i) == g.edges[i].from # START /\ ~Registered(g, g.edges[i].from)

ToViolates(g, i) == g.edges[i].to # END /\ ~Registered(g, g.edges[i].to)

CondFromViolates(g, j) == ~Registered(g, g.conditional_edges[j].from)

ViolatingTargets(g, j) ==
    {x \in MappingTargets(g.conditional_edges[j]) : x # END /\ ~Registered(g, x)}

ViolatingEdges(g) == {i \in EdgeIdx(g) : FromViolates(g, i) \/ ToViolates(g, i)}

ViolatingConds(g) ==
    {j \in CondIdx(g) : CondFromViolates(g, j) \/ ViolatingTargets(g, j) # {}}

\* C34: a failed compile reports the first violation in scan order: of the
\* first violating unconditional edge its `from`, or else its `to`; without
\* a violating edge, of the first violating conditional edge its `from`, or
\* else one of its violating targets
C34_FirstViolationReported ==
    phase = "failed" =>
        LET x == compile_result.err.arg
        IN  /\ compile_result.tag = "Err"
            /\ compile_result.err.kind = "NodeNotFound"
            /\ IF ViolatingEdges(graph) # {}
               THEN LET i == MinOf(ViolatingEdges(graph))
                    IN  x = IF FromViolates(graph, i)
                            THEN graph.edges[i].from ELSE graph.edges[i].to
               ELSE /\ ViolatingConds(graph) # {}
                    /\ LET j == MinOf(ViolatingConds(graph))
                       IN  IF CondFromViolates(graph, j)
                           THEN x = graph.conditional_edges[j].from
                           ELSE x \in ViolatingTargets(graph, j)

\* C34 witness: compile failed on a graph whose first edge has an
\* unregistered `from` and another unregistered `to`, and which has a
\* conditional edge out of a third unregistered name
C34_Witness ==
    /\ phase = "failed"
    /\ Len(graph.edges) >= 1
    /\ FromViolates(graph, 1) /\ ToViolates(graph, 1)
    /\ graph.edges[1].from # graph.edges[1].to
    /\ \E j \in CondIdx(graph) :
            /\ CondFromViolates(graph, j)
            /\ graph.conditional_edges[j].from
                    \notin {graph.edges[1].from, graph.edges[1].to}
    /\ compile_result.err.arg = graph.edges[1].from

----------------------------------------------------------------------------
(* The nodes and the state of a run after its first step *)

\* C35: once the first transform of a run has been invoked, the current
\* node is always a registered node and every node invoked is registered:
\* NodeNotFound is returned only by a run that invoked nothing
C35_LaterNodesRegistered ==
    \A c \in DOMAIN calls :
        LET call == calls[c]
        IN  /\ call.trace # <<>> =>
                /\ Registered(TheGraph, call.current_node)
                /\ \A p \in 1..Len(call.trace) : Registered(TheGraph, call.trace[p].node)
                /\ ~(Done(call) /\ call.result.tag = "Err"
                        /\ call.result.err.kind = "NodeNotFound")
            /\ (Done(call) /\ call.result.tag = "Err"
                    /\ call.result.err.kind = "NodeNotFound") => call.trace = <<>>

\* C35 witness: a run has gone from its first node to a second one through
\* a conditional edge and returned Ok
C35_Witness ==
    LET call == calls[1]
    IN  /\ Done(call)
        /\ call.result.tag = "Ok"
        /\ Len(NodeSeq(call)) >= 2
        /\ \E q \in 1..Len(call.trace) : IsCondEv(call, q)
        /\ \E i \in EdgeIdx(TheGraph) : TheGraph.edges[i].to = END

\* C37: every transform after the first of a run is given the output of the
\* transform invoked before it; the predicates evaluated in between are
\* given that same state and leave it as it is
C37_StateThreaded ==
    \A c \in DOMAIN calls : \A q \in 1..Len(calls[c].trace) :
        LET call == calls[c]
            p == NodeBefore(call, q)
        IN  /\ (IsNodeEv(call, q) /\ p # 0) =>
                /\ ~Fails(TheGraph, call, p)
                /\ call.trace[q].data = Outcome(TheGraph, call, p).val
            /\ (IsNodeEv(call, q) /\ p = 0) => call.trace[q].data = call.input
            /\ (q = Len(call.trace) /\ ~Done(call)) =>
                    call.current_data = call.trace[q].data

\* C37 witness: the third transform of a run was invoked after a predicate,
\* on the output of the second, which is neither that transform's input nor
\* the input of the run
C37_Witness ==
    \E q \in 1..Len(calls[1].trace) :
        LET call == calls[1]
            p == NodeBefore(call, q)
        IN  /\ IsNodeEv(call, q)
            /\ p # 0
            /\ NodeBefore(call, p) # 0
            /\ IsCondEv(call, q - 1)
            /\ call.trace[q].data # call.trace[p].data
            /\ call.trace[q].data # call.input

----------------------------------------------------------------------------
(* Runs on graphs without a cycle *)

\* the names an unconditional edge or a mapping entry leads to from n
Successors(cg, n) ==
    {cg.edges[i].to : i \in EdgesFrom(cg, n)}
    \cup UNION {MappingTargets(cg.conditional_edges[j]) : j \in CondsFrom(cg, n)}

\* the names reached from n in one transition or more
ReachableFrom(cg, n) ==
    LET RECURSIVE Within(_, _)
        Within(S, k) ==
            IF k = 0 THEN {}
            ELSE LET nxt == UNION {Successors(cg, m) : m \in S}
                 IN  nxt \cup Within(nxt, k - 1)
    IN  Within({n}, Cardinality(Referenced(cg)) + 1)

\* the directed graph of all edges and all mapping entries has no cycle
Acyclic(cg) == \A n \in Referenced(cg) : n \notin ReachableFrom(cg, n)

\* C38: on a compiled graph whose edges and mapping entries form no cycle, a
\* run invokes each node at most once and at most |nodes| transforms, each
\* followed by at most one predicate per conditional edge, and a run that
\* has not returned can take its next step: every run terminates
C38_AcyclicTerminates ==
    Acyclic(TheGraph) =>
        \A c \in DOMAIN calls :
            LET call == calls[c]
                nodes == DOMAIN TheGraph.nodes
            IN  /\ \A n \in nodes : TimesInvoked(call, n) <= 1
                /\ Invocations(call.trace) <= Cardinality(nodes)
                /\ Len(call.trace)
                        <= Cardinality(nodes) * (1 + Len(TheGraph.conditional_edges))
                /\ (Started(call) /\ ~Done(call)) => CanStep(c)

\* C38 witness: a run on a graph without a cycle has invoked two nodes and a
\* predicate and returned Ok
C38_Witness ==
    LET call == calls[1]
    IN  /\ Acyclic(TheGraph)
        /\ Done(call)
        /\ call.result.tag = "Ok"
        /\ Invocations(call.trace) = 2
        /\ \E q \in 1..Len(call.trace) : IsCondEv(call, q)

----------------------------------------------------------------------------
(* The Azure OpenAI client: the parser of its streamed response.  Its       *)
(* messages end with two newlines.                                          *)

SerdeJsonError == [kind |-> "SerdeJsonError", arg |-> ""]

\* buffer.find("\n\n"): the index of the first of two newlines in a row
\* (0: none)
FindBlankLine(s) ==
    LET at == {i \in 1..(Len(s) - 1) : s[i] = "nl" /\ s[i + 1] = "nl"}
    IN  IF at = {} THEN 0 ELSE MinOf(at)

\* the `while let Some(pos) = buffer.find("\n\n")` loop: every complete
\* message is taken off the buffer; a `data: ` message yields its chunk, or
\* the error of its parse; `data: [DONE]` leaves this loop, with the rest of
\* the buffer kept
ProcessMessages(buffer, items) ==
    LET RECURSIVE Go(_, _)
        Go(buf, its) ==
            LET pos == FindBlankLine(buf)
                message == SubSeq(buf, 1, pos - 1)
                rest == SubSeq(buf, pos + 2, Len(buf))
            IN  IF pos = 0
                THEN [buffer |-> buf, items |-> its]
                ELSE IF message # <<>> /\ message[1] = "d"
                THEN IF Tail(message) = <<"E">>
                     THEN [buffer |-> rest, items |-> its]
                     ELSE IF ParseChunk(Tail(message)).tag = "Ok"
                     THEN Go(rest, Append(its, ParseChunk(Tail(message))))
                     ELSE Go(rest, Append(its, Err(SerdeJsonError)))
                ELSE Go(rest, its)
    IN  Go(buffer, items)

\* stream.next() answers Some(Ok(chunk)) with the next n bytes of the body:
\* a cancelled token leaves the loop; otherwise the chunk is decoded and
\* appended to the buffer, the complete messages are processed, and the next
\* network chunk is awaited
AzureChunkArrives(n) ==
    /\ sse.st = "polling"
    /\ n \in 1..(Len(sse.body) - sse.pos)
    /\ LET chunk == SubSeq(sse.body, sse.pos + 1, sse.pos + n)
           r == ProcessMessages(sse.buffer \o Utf8Lossy(chunk), sse.items)
       IN  sse' = IF rpc.token = "cancelled"
                  THEN [sse EXCEPT !.pos = @ + n, !.st = "ended"]
                  ELSE [sse EXCEPT !.pos = @ + n, !.items = r.items,
                                   !.buffer = r.buffer]
    /\ UNCHANGED <<graph, phase, compiled, compile_result, calls, rpc, uri>>

\* stream.next() answers Some(Err(e)): a cancelled token leaves the loop;
\* otherwise the error is yielded and the loop goes on (the rest of the body
\* is lost with the connection)
AzureChunkFails ==
    /\ sse.st = "polling"
    /\ sse.pos < Len(sse.body)
    /\ sse' = IF rpc.token = "cancelled"
              THEN [sse EXCEPT !.st = "ended"]
              ELSE [sse EXCEPT
                      !.items = Append(@, Err(UnknownError("Failed to read response"))),
                      !.body = SubSeq(@, 1, sse.pos)]
    /\ UNCHANGED <<graph, phase, compiled, compile_result, calls, rpc, uri>>

\* stream.next() answers None: the loop ends
AzureBodyEnds ==
    /\ sse.st = "polling"
    /\ sse.pos = Len(sse.body)
    /\ sse' = [sse EXCEPT !.st = "ended"]
    /\ UNCHANGED <<graph, phase, compiled, compile_result, calls, rpc, uri>>

\* the messages a body is made of: a chunk, another one, a payload that is
\* not JSON, the end marker, and a message that is not a `data: ` message
MessageShapes ==
    { <<"d", "a", "nl", "nl">>, <<"d", "a", "a", "nl", "nl">>,
      <<"d", "x", "nl", "nl">>, <<"d", "E", "nl", "nl">>, <<"c", "nl", "nl">> }

AzureBodies ==
    { Concat(ms) \o tl :
        ms \in UNION {[1..n -> MessageShapes] : n \in 0..MaxLines}, tl \in TailShapes }

\* stream_chat_completions of the Azure client has sent the request and
\* returned the stream of a successful response
InitAzure ==
    /\ NoGraph
    /\ rpc = [IdleRpc EXCEPT !.pc = "done", !.api = "stream_chat_completions",
                             !.stream = Some(TRUE), !.token = "live", !.sent = 1,
                             !.sent_stream = Some(TRUE), !.result = Ok("stream")]
    /\ \E body \in AzureBodies : sse = [OpenStream(body) EXCEPT !.st = "polling"]
    /\ uri = NoUri

NextAzure ==
    \/ \E n \in 1..Len(sse.body) : AzureChunkArrives(n)
    \/ AzureChunkFails
    \/ AzureBodyEnds
    \/ Cancel

SpecAzure == InitAzure /\ [][NextAzure]_vars

\* the messages of a text, in order, without their two newlines
RECURSIVE SplitMessages(_)
SplitMessages(s) ==
    LET p == FindBlankLine(s)
    IN  IF p = 0 THEN <<>>
        ELSE <<SubSeq(s, 1, p - 1)>> \o SplitMessages(SubSeq(s, p + 2, Len(s)))

\* the number of bytes of the body up to and including the two newlines of
\* its first `data: [DONE]` message (0: the body has no such message)
AzureDoneEnd(body) ==
    LET ends == {p \in 2..Len(body) :
                    /\ body[p] = "nl" /\ body[p - 1] = "nl"
                    /\ \E i \in 1..Len(SplitMessages(SubSeq(body, 1, p))) :
                            IsDone(SplitMessages(SubSeq(body, 1, p))[i])}
    IN  IF ends = {} THEN 0 ELSE MinOf(ends)

\* C39: once the `data: [DONE]` message has been read, the chunks the
\* stream has yielded come from the messages before it: no chunk is yielded
\* for a message that follows it
C39_NothingAfterDone ==
    LET done == AzureDoneEnd(sse.body)
        before == SelectSeq(SplitMessages(SubSeq(sse.body, 1, done)), IsChunkLine)
    IN  (done # 0 /\ sse.pos >= done) =>
            Len(SelectSeq(sse.items, LAMBDA it : it.tag = "Ok")) <= Len(before)

====
